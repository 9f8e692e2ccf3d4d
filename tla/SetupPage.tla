------------------------------ MODULE SetupPage ------------------------------
(***************************************************************************)
(* Setting up a device: the guides of /setup, the generator of Apple       *)
(* configuration profiles (/mobileconfig) with its QR code, and the page   *)
(* that the other device opens by scanning the code (/short/:code).        *)
(* Copying a field of the setup page is left out.                          *)
(***************************************************************************)
EXTENDS AppStore

CONSTANTS SetupProfiles,
          MaxSteps,   \* bound: clicks of the user
          MaxLinks,   \* bound: short links
          MaxFaults   \* bound: failing requests

\* The generator's state: the form, whether a request of each kind is under way, the link
\* behind the code on the screen, if there is one, and whether it was just copied.
Forms == [device : {"", "named", "invalid"}, options : {"https", "tls"}, advanced : BOOLEAN,
          downloading : BOOLEAN, generating : BOOLEAN, qr : Nat \cup {Null}, copied : BOOLEAN]

ASSUME SetupAssumption == {MaxSteps, MaxLinks, MaxFaults} \subseteq Nat /\ Null \notin Forms

VARIABLES
    where,      \* the page: "/setup", "/mobileconfig" or "/other"
    chosen,     \* the active profile, or Null
    restricted, \* limited access
    guide,      \* the guide panel's state on the setup page
    room,       \* the store's rightPanelOpen
    gen,        \* the generator's state, or Null
    requests,      \* its requests under way
    links,      \* the short links of the server
    device,     \* the download page on the other device, or Null
    drift,      \* the form or the profile changed after the QR code shown, or the one
                \* that is under way, was asked for
    steps, faults

setupVars == <<where, chosen, restricted, guide, room, gen, requests, links, device, drift, steps, faults>>

Step == steps > 0 /\ steps' = steps - 1
-----------------------------------------------------------------------------
(* /setup *)

\* Guides with and without a quick setup.
Platforms == {"iOS", "Windows"}
SupportsMobileconfig == {"iOS"}

NoGuide == [selected |-> Null, shown |-> FALSE, closing |-> 0]

GuideShown == guide.selected # Null /\ guide.shown

Opened(g, platform) == [g EXCEPT !.selected = platform, !.shown = TRUE]

HandlePlatformClick ==
    /\ where = "/setup" /\ Step
    /\ \E p \in Platforms : guide' = Opened(guide, p)
    /\ room' = TRUE
    /\ UNCHANGED <<where, chosen, restricted, gen, requests, links, device, drift, faults>>

\* The guide slides out before it is forgotten.
HandleGuideClose ==
    /\ GuideShown /\ Step
    /\ guide' = [guide EXCEPT !.shown = FALSE, !.closing = @ + 1]
    /\ room' = FALSE
    /\ UNCHANGED <<where, chosen, restricted, gen, requests, links, device, drift, faults>>

\* Its timer, also if another guide has been opened since.
CloseEnds ==
    /\ guide.closing > 0
    /\ guide' = [guide EXCEPT !.selected = Null, !.closing = @ - 1]
    /\ UNCHANGED <<where, chosen, restricted, room, gen, requests, links, device, drift, steps, faults>>
-----------------------------------------------------------------------------
(* Navigation *)

NewForm == [device |-> "", options |-> "https", advanced |-> FALSE,
            downloading |-> FALSE, generating |-> FALSE, qr |-> Null, copied |-> FALSE]

Orphaned == {[c EXCEPT !.orphan = TRUE] : c \in requests}

\* The old page's state is lost, requests go on without it, and the layout takes back
\* the room of the panel outside /setup.
Going(page, g) ==
    /\ where' = page /\ guide' = g
    /\ room' = ((room \/ g.shown) /\ page = "/setup")
    /\ gen' = IF page = "/mobileconfig" THEN NewForm ELSE Null
    /\ requests' = Orphaned

\* By the menu.
Navigate ==
    /\ Step /\ \E page \in {"/setup", "/mobileconfig", "/other"} \ {where} : Going(page, NoGuide)
    /\ UNCHANGED <<chosen, restricted, links, device, drift, faults>>

HandleQuickSetup ==
    /\ GuideShown /\ guide.selected \in SupportsMobileconfig /\ Step
    /\ Going("/mobileconfig", NoGuide)
    /\ UNCHANGED <<chosen, restricted, links, device, drift, faults>>

\* "Back" opens the guide of the platform, iOS if the page was entered otherwise.
HandleBack ==
    /\ where = "/mobileconfig" /\ Step
    /\ Going("/setup", Opened(NoGuide, "iOS"))
    /\ UNCHANGED <<chosen, restricted, links, device, drift, faults>>

SwitchActive ==
    /\ Step /\ \E p \in SetupProfiles \ {chosen} : chosen' = p
    /\ drift' = [shown |-> TRUE, asked |-> TRUE]
    /\ UNCHANGED <<where, restricted, guide, room, gen, requests, links, device, faults>>

LimitAccess ==
    /\ ~restricted /\ restricted' = TRUE /\ Step
    /\ UNCHANGED <<where, chosen, guide, room, gen, requests, links, device, drift, faults>>
-----------------------------------------------------------------------------
(* /mobileconfig *)

\* Mutant: the code stays on the screen.
FormEffectKeeps(f) == [f EXCEPT !.copied = FALSE]

\* The effect of a change of the form.
FormEffect(f) == [f EXCEPT !.qr = Null, !.copied = FALSE]

EditDevice == \E d \in {"", "named", "invalid"} \ {gen.device} : gen' = FormEffect([gen EXCEPT !.device = d])

\* The encryption, or the networks to leave out.
EditOptions ==
    /\ gen.advanced
    /\ \E o \in {"https", "tls"} \ {gen.options} : gen' = FormEffect([gen EXCEPT !.options = o])

UpdateFormField ==
    /\ gen # Null /\ Step
    /\ EditDevice \/ EditOptions
    /\ drift' = [drift EXCEPT !.asked = TRUE]
    /\ UNCHANGED <<where, chosen, restricted, guide, room, requests, links, device, faults>>

ToggleAdvanced ==
    /\ gen # Null /\ Step
    /\ gen' = [gen EXCEPT !.advanced = ~@]
    /\ UNCHANGED <<where, chosen, restricted, guide, room, requests, links, device, drift, faults>>

IsValidDeviceId(id) == id # "invalid"

GetRequestData == [profile |-> chosen, device |-> gen.device, options |-> gen.options]

\* The buttons are enabled.
CanRequest == gen # Null /\ chosen # Null /\ IsValidDeviceId(gen.device) /\ ~restricted

DownloadMobileConfig ==
    /\ CanRequest /\ ~gen.downloading /\ Step
    /\ gen' = [gen EXCEPT !.downloading = TRUE]
    /\ requests' = requests \cup {[kind |-> "file", data |-> GetRequestData, orphan |-> FALSE]}
    /\ UNCHANGED <<where, chosen, restricted, guide, room, links, device, drift, faults>>

GenerateQRCode ==
    /\ CanRequest /\ ~gen.generating /\ Step
    /\ gen' = [gen EXCEPT !.generating = TRUE, !.copied = FALSE]
    /\ requests' = requests \cup {[kind |-> "qr", data |-> GetRequestData, orphan |-> FALSE]}
    /\ drift' = [drift EXCEPT !.asked = FALSE]
    /\ UNCHANGED <<where, chosen, restricted, guide, room, links, device, faults>>

\* The file is saved (on iOS through a short link of its own), or not.
DownloadEnds(c) ==
    /\ c.kind = "file"
    /\ requests' = requests \ {c}
    /\ gen' = IF c.orphan THEN gen ELSE [gen EXCEPT !.downloading = FALSE]
    /\ UNCHANGED <<where, chosen, restricted, guide, room, links, device, drift, steps, faults>>

QRCodeEnds(c) ==
    /\ c.kind = "qr"
    /\ requests' = requests \ {c}
    /\ \/ /\ Len(links) < MaxLinks
          /\ links' = Append(links, [data |-> c.data, live |-> TRUE])
          /\ gen' = IF c.orphan THEN gen
                    ELSE [gen EXCEPT !.qr = Len(links) + 1, !.generating = FALSE]
          /\ drift' = IF c.orphan THEN drift ELSE [drift EXCEPT !.shown = drift.asked]
          /\ UNCHANGED faults
       \/ /\ faults > 0 /\ faults' = faults - 1
          /\ gen' = IF c.orphan THEN gen ELSE [gen EXCEPT !.generating = FALSE]
          /\ UNCHANGED <<links, drift>>
    /\ UNCHANGED <<where, chosen, restricted, guide, room, device, steps>>

QRShown == gen # Null /\ gen.qr # Null

CopyShortLink ==
    /\ QRShown /\ Step
    /\ gen' = [gen EXCEPT !.copied = TRUE]
    /\ UNCHANGED <<where, chosen, restricted, guide, room, requests, links, device, drift, faults>>

\* Its timer, or that of an earlier copy.
CopiedEnds ==
    /\ gen # Null /\ gen.copied
    /\ gen' = [gen EXCEPT !.copied = FALSE]
    /\ UNCHANGED <<where, chosen, restricted, guide, room, requests, links, device, drift, steps, faults>>

\* A link is good for five minutes.
LinkExpires ==
    /\ \E i \in DOMAIN links : links[i].live /\ links' = [links EXCEPT ![i].live = FALSE]
    /\ UNCHANGED <<where, chosen, restricted, guide, room, gen, requests, device, drift, steps, faults>>
-----------------------------------------------------------------------------
(* /short/:code on the other device *)

\* downloadMobileConfig: Safari on iOS is sent to the file, others ask for it.  The
\* outcome of an earlier download stays on the page.
Downloading(d) ==
    IF d.ios THEN [d EXCEPT !.loading = FALSE, !.error = FALSE, !.success = TRUE, !.asked = @ + 1]
    ELSE [d EXCEPT !.loading = TRUE, !.error = FALSE, !.asked = @ + 1]

\* The code on the screen is scanned; want is what the form says then, Null after a drift.
Scan ==
    /\ QRShown /\ device = Null /\ Step
    /\ \E ios \in BOOLEAN :
          device' = Downloading([code |-> gen.qr, ios |-> ios, loading |-> TRUE, error |-> FALSE,
                                 success |-> FALSE, asked |-> 0, got |-> Null,
                                 want |-> IF drift.shown THEN Null ELSE GetRequestData])
    /\ UNCHANGED <<where, chosen, restricted, guide, room, gen, requests, links, drift, faults>>

\* A download ends with the file of the link, if there still is one.
Fetched ==
    /\ device # Null /\ device.asked > 0
    /\ LET d == [device EXCEPT !.asked = @ - 1] IN
       \/ /\ links[device.code].live
          /\ device' = [d EXCEPT !.got = links[device.code].data, !.loading = FALSE, !.success = TRUE]
          /\ UNCHANGED faults
       \/ /\ IF links[device.code].live THEN faults > 0 /\ faults' = faults - 1 ELSE UNCHANGED faults
          /\ device' = IF d.ios THEN d ELSE [d EXCEPT !.loading = FALSE, !.error = TRUE]
    /\ UNCHANGED <<where, chosen, restricted, guide, room, gen, requests, links, drift, steps>>

\* "Try Again" or "Download Again".
RetryDownload ==
    /\ device # Null /\ (device.error \/ device.success) /\ device.asked = 0 /\ Step
    /\ device' = Downloading(device)
    /\ UNCHANGED <<where, chosen, restricted, guide, room, gen, requests, links, drift, faults>>
-----------------------------------------------------------------------------
SetupInit ==
    /\ where \in {"/setup", "/mobileconfig"}
    /\ chosen \in SetupProfiles \cup {Null} /\ restricted = FALSE
    /\ guide = NoGuide /\ room = FALSE
    /\ gen = IF where = "/mobileconfig" THEN NewForm ELSE Null
    /\ requests = {} /\ links = <<>> /\ device = Null /\ drift = [shown |-> FALSE, asked |-> FALSE]
    /\ steps = MaxSteps /\ faults = MaxFaults

SetupNext ==
    \/ HandlePlatformClick \/ HandleGuideClose \/ CloseEnds
    \/ Navigate \/ HandleQuickSetup \/ HandleBack \/ SwitchActive \/ LimitAccess
    \/ UpdateFormField \/ ToggleAdvanced \/ DownloadMobileConfig \/ GenerateQRCode
    \/ \E c \in requests : DownloadEnds(c) \/ QRCodeEnds(c)
    \/ CopyShortLink \/ CopiedEnds \/ LinkExpires
    \/ Scan \/ Fetched \/ RetryDownload

SetupSpec == SetupInit /\ [][SetupNext]_setupVars
-----------------------------------------------------------------------------
\* What a device installs after scanning the code is the configuration that the form and
\* the page's profile describe at that moment, unless the form was edited while the code
\* was on its way or the profile was switched after it was asked for: an edit takes the
\* code of the old form off the screen, and no answer for an abandoned form gets there.
InstalledAsShown ==
    device # Null /\ device.got # Null /\ device.want # Null => device.got = device.want

=============================================================================
