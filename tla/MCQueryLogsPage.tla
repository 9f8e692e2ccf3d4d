-------------------------- MODULE MCQueryLogsPage ---------------------------
(***************************************************************************)
(* Two profiles: one whose rows form runs that the span and the status     *)
(* cut, one whose rows have no domain and come from another device.        *)
(***************************************************************************)
EXTENDS QueryLogsPage

Reason(kind, id) == [kind |-> kind, id |-> id]

Row(name, status, device, time, outcome, reasons) ==
    [domain |-> [name |-> name, dot |-> time = 3], status |-> status, device |-> device,
     time |-> time, old |-> time # Null /\ time < 2,
     order |-> IF name = Null THEN 1 ELSE 2 + (time % 2),
     type |-> IF time = 4 THEN "AAAA" ELSE "A", outcome |-> outcome,
     code |-> "NOERROR", reasons |-> reasons]

MCLogged ==
    [a |-> << Row("x", "blocked", "d1", 1, "blocked",
                  <<Reason("blocklist", "l1"), Reason("blocklist", "l1"), Reason("subdomain", Null)>>),
              Row("x", "blocked", "d1", 2, "blocked",
                  <<Reason("cname", Null), Reason("custom_rule", Null), Reason("blocklist", Null)>>),
              Row("x", "processed", "d1", 3, "timeout", <<Reason("custom_rule", Null)>>),
              Row("x", "processed", "d1", 4, "resolved", <<Reason("cname", Null)>>),
              Row("x", "processed", "d1", 5, Null, <<Reason("service", "s1"), Reason("service", Null)>>) >>,
     b |-> << Row(Null, "processed", "d2", Null, "resolved", <<>>),
              Row("y", "processed", "d2", 3, "servfail_dnssec", <<Reason("dnssec", Null)>>),
              Row("y", "blocked", "d2", 4, "blocked", <<Reason("cname", Null)>>),
              Row("y", "blocked", "d2", 4, "blocked", <<Reason("rebinding", Null), Reason("default", Null)>>) >>]

MCQueries == {DefaultQuery} \cup
    {[DefaultQuery EXCEPT !.status = "blocked"], [DefaultQuery EXCEPT !.sort = "domain"],
     [DefaultQuery EXCEPT !.device = "d1"], [DefaultQuery EXCEPT !.timespan = "last"],
     [DefaultQuery EXCEPT !.search = "x"]}
=============================================================================
