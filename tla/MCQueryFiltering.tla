------------------------- MODULE MCQueryFiltering --------------------------
EXTENDS QueryFiltering, FiniteSets

\* shop.com and a subdomain of it, and the tracker behind its CNAME
Shop == <<"shop", "com">>
WWW == <<"www", "shop", "com">>
Ads == <<"px", "ads", "com">>

MCQueries == {[name |-> WWW, qtype |-> "A"], [name |-> Shop, qtype |-> "HTTPS"],
              [name |-> <<"com">>, qtype |-> "A"],
              [name |-> <<"check", "dns">>, qtype |-> "A"]}
MCCheckNames == {<<"check", "dns">>}

\* Version 2 of "x" lists www.shop.com together with its exception; "y" names a
\* TLD, which no walk may use, and excepts a parent of what its version 2 lists
MCListed == [x |-> <<{Shop, <<"com">>}, {Shop, WWW, <<"ads", "com">>}>>,
             y |-> <<{<<"ads", "com">>, <<"com">>}, {WWW}>>]
MCExcepted == [x |-> <<{}, {WWW}>>, y |-> <<{Ads}, {Shop}>>]

Rule(k, v, a) == [kind |-> k, value |-> v, action |-> a]
MCRules == {Rule("subtree", Shop, "allow"), Rule("exact", WWW, "block"),
            Rule("contains", <<"ads">>, "allow"), Rule("asn", 1, "block"),
            Rule("tld", <<"px", "ads">>, "block"), Rule("ip", "public", "allow")}
MCProfiles ==
    [blocklists : {<<"x", "y">>}, subdomains : {"allow", "block"}, default : {"allow"},
     rules : {R \in SUBSET MCRules : Cardinality(R) <= 1}, services : {{}, {"s"}},
     rebinding : BOOLEAN]
    \cup
    [blocklists : {<<>>, <<"y", "x">>}, subdomains : {"block"}, default : {"allow", "block"},
     rules : {R \in SUBSET MCRules : Cardinality(R) = 2}, services : {{}}, rebinding : {TRUE}]

MCAnswers == {[cnames |-> <<>>, ips |-> {"private"}],
              [cnames |-> <<Ads, WWW, Ads>>, ips |-> {"public", "private"}]}
MCServiceDomains == [s |-> {Shop}]
MCServiceASNs == [s |-> {1}]
MCASN == [public |-> 1, private |-> 0]
MCAllowSuffixes == {<<"local">>}
====
