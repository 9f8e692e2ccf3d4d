--------------------------- MODULE AppPartsProofs ---------------------------
(***************************************************************************)
(* For any number of files, profiles, tabs, builds, links, days, rows,     *)
(* pages, clock steps and failures: an import sends what is ticked, a      *)
(* reload that was asked for gets a newer build, a device installs what    *)
(* the page showed, collected data are deleted only as announced, the      *)
(* statistics page shows the view it names and its first counts, and the   *)
(* query logs page and its pill skip no row.                               *)
(***************************************************************************)
EXTENDS BackupRestore, SwUpdate, SetupPage, DataCollection, StatisticsPage, QueryLogsPage,
        Integers, FiniteSetTheorems, SequenceTheorems, WellFoundedInduction, TLAPS

(* Import *)

ImportFields == {"step", "file", "selected", "importing", "result"}
RequestFields == {"kind", "at", "dialog", "file", "sent", "ticked", "noted", "cred"}

\* What is selected is in the file, and so is what a request sends.
Sound(c) ==
    /\ RequestFields \subseteq DOMAIN c
    /\ c.kind = "import" =>
          /\ c.sent = c.ticked /\ c.sent \subseteq Rows(c.file)
          /\ c.noted = {r \in c.sent : CollectsData(r)}

Chosen(i) == DOMAIN i = ImportFields /\ i.selected \subseteq Rows(i.file)

ImportInv ==
    /\ Chosen(imp)
    /\ \A c \in calls : Sound(c)

(* The update of open tabs *)

Workers == [active : Nat, waiting : Nat, installing : Nat, skip : BOOLEAN]

\* Newer builds come later: installed, waiting, then active; a worker waits only behind
\* an active one, and is told to take over only if it waits.
WorkersInOrder(w) ==
    /\ w \in Workers
    /\ w.active <= deployed /\ w.waiting <= deployed /\ w.installing <= deployed
    /\ w.waiting # 0 => w.active # 0 /\ w.active < w.waiting
    /\ w.installing # 0 => w.active < w.installing /\ w.waiting < w.installing
    /\ w.skip => w.waiting # 0

PageFields == {"build", "hidden", "guard", "last", "registered", "startup", "event", "check",
               "handled", "offer", "tabAway", "pending"}

\* What is promised to a page is active, or it waits and will be told to take over.
OfferKept(offer, build, w) ==
    offer.sure => build < w.active \/ (offer.hasWaiting /\ build < w.waiting)

\* A page that was promised a newer build will get one, and once the page is about to be
\* reloaded for it, the worker was told to take over.
PageKept(p, w) ==
    /\ DOMAIN p = PageFields /\ p.build \in Nat /\ p.build <= deployed
    /\ p.check # Null => /\ p.check \in [id : Nat] /\ p.check.id <= deployed
                         /\ p.check.id # 0 => p.build < p.check.id
    /\ p.offer # Null \/ p.tabAway => OfferKept(p.offer, p.build, w)
    /\ p.pending # Null /\ p.pending.sure =>
          p.build < w.active \/ (~p.pending.plain /\ w.skip /\ p.build < w.waiting)
    /\ p.last # Null /\ p.last.sure => p.last.from < p.build

TabsInv ==
    /\ deployed \in Nat \ {0} /\ WorkersInOrder(worker)
    /\ DOMAIN tabs = Tabs /\ \A t \in Tabs : PageKept(tabs[t], worker)

(* Setting up a device *)

Data == [profile : SetupProfiles, device : {"", "named", "invalid"}, options : {"https", "tls"}]
RequestsOK == [kind : {"file", "qr"}, data : Data, orphan : BOOLEAN]
Links == [data : Data, live : BOOLEAN]
DeviceFields == {"code", "ios", "loading", "error", "success", "asked", "got", "want"}

\* The request of the form's own page for a code: there is one at a time, and it asks
\* for what the form says, unless that has changed since.
AskedHere == {c \in requests : c.kind = "qr" /\ ~c.orphan}

AsksAsShown ==
    /\ \A c, d \in AskedHere : c = d
    /\ \A c \in AskedHere : gen.generating /\ (~drift.asked => c.data = GetRequestData)

FormOK ==
    /\ gen # Null => gen \in Forms
    /\ chosen \in SetupProfiles \cup {Null}
    /\ drift \in [shown : BOOLEAN, asked : BOOLEAN]

AsksOK ==
    /\ requests \subseteq RequestsOK
    /\ gen = Null => \A c \in requests : c.orphan
    /\ AsksAsShown

\* The code that is shown leads to what the form says, unless that has drifted.
CodeOK ==
    /\ links \in Seq(Links)
    /\ QRShown => /\ gen.qr \in DOMAIN links
                  /\ ~drift.shown => links[gen.qr].data = GetRequestData

\* The device gets what the form said when the code was scanned.
DeviceOK ==
    device # Null =>
        /\ DOMAIN device = DeviceFields /\ device.code \in DOMAIN links
        /\ device.want # Null => /\ links[device.code].data = device.want
                                 /\ device.got \in {Null, device.want}

SetupInv == FormOK /\ AsksOK /\ CodeOK /\ DeviceOK
-----------------------------------------------------------------------------
(* Import *)

\* What is in the dialog stays in the file, and what is new under way is sound.
DialogStep ==
    /\ Chosen(imp')
    /\ \A c \in calls' : c \in calls \/ Sound(c)

LEMMA ImportStepKeeps == ImportInv /\ DialogStep => ImportInv'
BY DEF ImportInv, DialogStep

\* Calls that import nothing.
LEMMA OtherCallsSound ==
    /\ \A kind : kind # "import" => Sound(Call(kind))
    /\ \A kind, x, y : kind # "import" =>
          /\ Sound([Call(kind) EXCEPT !.dialog = x]) /\ Sound([Call(kind) EXCEPT !.file = x])
          /\ Sound([Call(kind) EXCEPT !.sent = x, !.cred = y])
BY DEF Call, Sound, RequestFields

\* What opening, closing, reading and choosing do to the import dialog.
LEMMA ImportDialog ==
    ASSUME NEW i, Chosen(i)
    PROVE  /\ Chosen(ResetImport(i))
           /\ \A file : Chosen(FileLoaded(i, file))
           /\ Chosen([i EXCEPT !.file = Null, !.selected = {}, !.step = "pick"])
           /\ Chosen([i EXCEPT !.selected = HandleSelectAll(Rows(i.file), i.selected)])
           /\ \A r \in Rows(i.file) : Chosen([i EXCEPT !.selected = HandleToggle(r, i.selected)])
           /\ \A x, y, z : /\ Chosen([i EXCEPT !.importing = x, !.result = y])
                           /\ Chosen([i EXCEPT !.importing = x, !.result = y, !.step = z])
                           /\ Chosen([i EXCEPT !.importing = x])
<1>1. Chosen(ResetImport(i))
  BY DEF ResetImport, NewImport, Chosen, ImportFields
<1>2. \A file : Chosen(FileLoaded(i, file))
  BY DEF FileLoaded, Chosen, ImportFields
<1>3. HandleSelectAll(Rows(i.file), i.selected) \subseteq Rows(i.file)
  BY DEF HandleSelectAll
<1>4. \A r \in Rows(i.file) : HandleToggle(r, i.selected) \subseteq Rows(i.file)
  BY DEF HandleToggle, Chosen
<1>5. \A x : x \subseteq Rows(i.file) => Chosen([i EXCEPT !.selected = x])
  BY DEF Chosen, ImportFields
<1>6. Chosen([i EXCEPT !.file = Null, !.selected = {}, !.step = "pick"])
  BY DEF Chosen, ImportFields
<1>7. \A x, y, z : /\ Chosen([i EXCEPT !.importing = x, !.result = y])
                   /\ Chosen([i EXCEPT !.importing = x, !.result = y, !.step = z])
                   /\ Chosen([i EXCEPT !.importing = x])
  BY DEF Chosen, ImportFields
<1> QED
  BY <1>1, <1>2, <1>3, <1>4, <1>5, <1>6, <1>7

LEMMA ImportKept == ImportInv /\ [BackupRestoreNext]_brVars => ImportInv'
<1> SUFFICES ASSUME ImportInv, [BackupRestoreNext]_brVars PROVE ImportInv'
  OBVIOUS
<1>1. Chosen(imp)
  BY DEF ImportInv
<1>2. ASSUME imp' = imp, calls' = calls PROVE ImportInv'
  BY <1>2 DEF ImportInv
<1>3. ASSUME imp' = imp, NEW c, calls' = calls \ {c} PROVE ImportInv'
  BY <1>3 DEF ImportInv
<1>4. ASSUME imp' = imp, NEW c, calls' = calls \cup {c}, Sound(c) PROVE ImportInv'
  BY <1>4 DEF ImportInv
<1>5. ASSUME UNCHANGED brVars PROVE ImportInv'
  BY <1>2, <1>5 DEF brVars
<1>6. ASSUME CloseDialog PROVE ImportInv'
  <2>1. imp' \in {imp, ResetImport(imp)} /\ calls' = calls
    BY <1>6 DEF CloseDialog, Closed
  <2> QED
    BY <1>1, <2>1, ImportDialog, ImportStepKeeps DEF DialogStep
<1>7. ASSUME BackToPick PROVE ImportInv'
  <2>1. imp' = [imp EXCEPT !.file = Null, !.selected = {}, !.step = "pick"] /\ calls' = calls
    BY <1>7 DEF BackToPick, ImportOnly
  <2> QED
    BY <1>1, <2>1, ImportDialog, ImportStepKeeps DEF DialogStep
<1>8. ASSUME SelectImport PROVE ImportInv'
  <2>1. PICK chosen1 \in {HandleSelectAll(Rows(imp.file), imp.selected)}
                         \cup {HandleToggle(r, imp.selected) : r \in Rows(imp.file)} :
          ImportOnly([imp EXCEPT !.selected = chosen1])
    BY <1>8 DEF SelectImport
  <2>2. imp' = [imp EXCEPT !.selected = chosen1] /\ calls' = calls
    BY <1>8, <2>1 DEF SelectImport, ImportOnly
  <2>3. Chosen(imp')
    BY <1>1, <2>2, ImportDialog
  <2> QED
    BY <2>2, <2>3, ImportStepKeeps DEF DialogStep
<1>9. ASSUME HandleImport PROVE ImportInv'
  <2> DEFINE c == [Call("import") EXCEPT
                     !.file = imp.file, !.sent = imp.selected \cap Rows(imp.file),
                     !.ticked = imp.selected, !.noted = CollectingNote,
                     !.cred = Credential(ver["import"], acct)]
  <2>1. imp' = [imp EXCEPT !.importing = TRUE, !.result = Null] /\ calls' = calls \cup {c}
    BY <1>9 DEF HandleImport, ImportOnly, Start
  <2>2. imp.selected \cap Rows(imp.file) = imp.selected
    BY <1>1 DEF Chosen
  <2>3. /\ RequestFields \subseteq DOMAIN c
        /\ c.sent = imp.selected /\ c.ticked = imp.selected /\ c.file = imp.file
        /\ c.noted = {r \in imp.selected : CollectsData(r)}
    BY <2>2 DEF Call, RequestFields, CollectingNote
  <2> HIDE DEF c
  <2>4. Sound(c)
    BY <1>1, <2>3 DEF Sound, Chosen
  <2> QED
    BY <1>1, <2>1, <2>4, ImportDialog, ImportStepKeeps DEF DialogStep
<1>10. ASSUME HandleDone PROVE ImportInv'
  BY <1>4, <1>10, OtherCallsSound DEF HandleDone, Start, ImportOnly
<1>11. ASSUME ChooseScope \/ SelectExport PROVE ImportInv'
  BY <1>2, <1>11 DEF ChooseScope, SelectExport, ExportOnly
<1>12. ASSUME HandleSubmit PROVE ImportInv'
  <2>1. PICK x, y : calls' = calls \cup {[Call("export") EXCEPT !.sent = x, !.cred = y]} /\ imp' = imp
    BY <1>12 DEF HandleSubmit, Start, ExportOnly
  <2> QED
    BY <1>4, <2>1, OtherCallsSound
<1>13. ASSUME NEW keys, LoadPasskeys(keys) PROVE ImportInv'
  BY <1>2, <1>13 DEF LoadPasskeys
<1>14. ASSUME NEW d, OpenDialog(d) \/ TypePassword(d) \/ TypeOtp(d) PROVE ImportInv'
  BY <1>2, <1>14 DEF OpenDialog, TypePassword, TypeOtp, Verify
<1>15. ASSUME NEW d, BeginPasskeyReauth(d) PROVE ImportInv'
  BY <1>4, <1>15, OtherCallsSound DEF BeginPasskeyReauth, Start, Verify
<1>16. ASSUME NEW d, NEW method, SwitchMethod(d, method) PROVE ImportInv'
  BY <1>2, <1>16 DEF SwitchMethod, Verify
<1>17. ASSUME NEW file, HandleFileAccepted(file) PROVE ImportInv'
  BY <1>4, <1>17, OtherCallsSound DEF HandleFileAccepted, Start, ImportOnly
<1>18. ASSUME NEW c, FileRead(c) PROVE ImportInv'
  <2>1. imp' \in {imp, FileLoaded(imp, c.file)} /\ calls' = calls \ {c}
    BY <1>18 DEF FileRead, End, ImportOnly
  <2>2. Chosen(imp')
    BY <1>1, <2>1 DEF Chosen, ImportFields, FileLoaded
  <2>3. \A d \in calls' : d \in calls
    BY <2>1
  <2> QED
    BY <2>2, <2>3, ImportStepKeeps DEF DialogStep
<1>19. ASSUME NEW c, PasskeyReauthDone(c) \/ PasskeyReauthFailed(c) PROVE ImportInv'
  BY <1>3, <1>19 DEF PasskeyReauthDone, PasskeyReauthFailed, End
<1>20. ASSUME NEW c, ImportAnswered(c) PROVE ImportInv'
  <2>1. /\ imp' = [imp EXCEPT !.importing = FALSE, !.result = Created(c), !.step = "results"]
        /\ calls' = calls \ {c}
    BY <1>20 DEF ImportAnswered, End
  <2>2. Chosen(imp')
    BY <1>1, <2>1 DEF Chosen, ImportFields
  <2>3. \A d \in calls' : d \in calls
    BY <2>1
  <2> QED
    BY <2>2, <2>3, ImportStepKeeps DEF DialogStep
<1>21. ASSUME NEW c, ImportFailed(c) PROVE ImportInv'
  <2>1. imp' = [imp EXCEPT !.importing = FALSE] /\ calls' = calls \ {c}
    BY <1>21 DEF ImportFailed, End
  <2> QED
    BY <1>1, <2>1, ImportDialog, ImportStepKeeps DEF DialogStep
<1>22. ASSUME NEW c, DoneAnswered(c) PROVE ImportInv'
  <2>1. imp' = ResetImport(imp) /\ calls' = calls \ {c}
    BY <1>22 DEF DoneAnswered, Closed, End
  <2> QED
    BY <1>1, <2>1, ImportDialog, ImportStepKeeps DEF DialogStep
<1>23. ASSUME NEW c, ExportAnswered(c) \/ ExportFailed(c) PROVE ImportInv'
  BY <1>3, <1>23 DEF ExportAnswered, ExportFailed, End
<1>24. ASSUME NEW account, Revalidate(account) PROVE ImportInv'
  BY <1>2, <1>24 DEF Revalidate
<1> QED
  BY <1>5, <1>6, <1>7, <1>8, <1>9, <1>10, <1>11, <1>12, <1>13, <1>14, <1>15, <1>16, <1>17, <1>18,
     <1>19, <1>20, <1>21, <1>22, <1>23, <1>24 DEF BackupRestoreNext

\* An import sends the profiles that are ticked, all of them in the file it was confirmed
\* with, and its note names those that will collect data, for any files, profiles and
\* dialogs closed and reopened meanwhile (ImportProfilesDialog's processFile,
\* handleImport and importedCollection).
THEOREM ImportsWhatIsTicked == BackupRestoreSpec => []ImportExact
<1>1. BackupRestoreInit => ImportInv
  BY DEF BackupRestoreInit, ImportInv, NewImport, Chosen, ImportFields
<1>2. ImportInv => ImportExact
  BY DEF ImportInv, Sound, ImportExact, Requests
<1> QED
  BY <1>1, <1>2, ImportKept, PTL DEF BackupRestoreSpec
-----------------------------------------------------------------------------
(* The update of open tabs *)

LEMMA MaxOfThree ==
    ASSUME NEW a \in Nat, NEW b \in Nat, NEW c \in Nat
    PROVE  /\ Max({a, b, c}) \in {a, b, c}
           /\ a <= Max({a, b, c}) /\ b <= Max({a, b, c}) /\ c <= Max({a, b, c})
<1>1. \E m \in {a, b, c} : \A y \in {a, b, c} : m >= y
  <2>1. CASE a >= b /\ a >= c
    BY <2>1
  <2>2. CASE b >= a /\ b >= c
    BY <2>2
  <2>3. CASE c >= a /\ c >= b
    BY <2>3
  <2> QED
    BY <2>1, <2>2, <2>3
<1> DEFINE m == CHOOSE x \in {a, b, c} : \A y \in {a, b, c} : x >= y
<1>2. Max({a, b, c}) = m
  BY DEF Max
<1>3. m \in {a, b, c} /\ \A y \in {a, b, c} : m >= y
  BY <1>1
<1> QED
  BY <1>2, <1>3

\* A worker that was told to take over.
Told(w) == [w EXCEPT !.skip = @ \/ w.waiting # 0]

\* Every promise that w keeps, w2 keeps.
Later(w, w2) ==
    /\ w2.active >= w.active
    /\ \/ w2.waiting >= w.waiting /\ (w.skip => w2.skip)
       \/ w2.active >= w.waiting

LEMMA LaterKeeps ==
    ASSUME NEW p, NEW w, NEW w2, WorkersInOrder(w), WorkersInOrder(w2), Later(w, w2), PageKept(p, w)
    PROVE  PageKept(p, w2)
<1>1. /\ p.build \in Nat /\ w.active \in Nat /\ w.waiting \in Nat
      /\ w2.active \in Nat /\ w2.waiting \in Nat
  BY DEF PageKept, WorkersInOrder, Workers
<1>2. \A offer : OfferKept(offer, p.build, w) => OfferKept(offer, p.build, w2)
  BY <1>1 DEF OfferKept, Later
<1>3. p.pending # Null /\ p.pending.sure =>
          p.build < w2.active \/ (~p.pending.plain /\ w2.skip /\ p.build < w2.waiting)
  BY <1>1 DEF PageKept, Later
<1> QED
  BY <1>2, <1>3 DEF PageKept

\* Looking for an update, and telling the waiting worker, break no promise; when nothing
\* is installed or waits after the look, the active worker is the newest.
LEMMA UpdateInOrder ==
    ASSUME NEW w, WorkersInOrder(w), deployed \in Nat \ {0}
    PROVE  /\ WorkersInOrder(Update(w)) /\ Later(w, Update(w))
           /\ Update(w).waiting = w.waiting
           /\ Update(w).waiting = 0 /\ Update(w).installing = 0 => Update(w).active = deployed
<1> DEFINE m == Max({w.active, w.waiting, w.installing})
<1>1. w \in Workers /\ w.active \in Nat /\ w.waiting \in Nat /\ w.installing \in Nat
  BY DEF WorkersInOrder, Workers
<1>2. m \in {w.active, w.waiting, w.installing} /\ w.active <= m /\ w.waiting <= m /\ w.installing <= m
  BY <1>1, MaxOfThree
<1>3. Update(w) = IF deployed > m THEN [w EXCEPT !.installing = deployed] ELSE w
  BY DEF Update
<1> HIDE DEF m
<1>4. CASE deployed > m
  BY <1>1, <1>2, <1>3, <1>4 DEF WorkersInOrder, Workers, Later
<1>5. CASE ~(deployed > m)
  BY <1>1, <1>2, <1>3, <1>5 DEF WorkersInOrder, Workers, Later
<1> QED
  BY <1>4, <1>5

LEMMA ToldInOrder ==
    ASSUME NEW w, WorkersInOrder(w)
    PROVE  /\ WorkersInOrder(Told(w)) /\ Later(w, Told(w))
           /\ Told(w).active = w.active /\ Told(w).waiting = w.waiting
           /\ w.waiting # 0 => Told(w).skip
<1> DEFINE b == w.skip \/ w.waiting # 0
<1>1. w \in Workers /\ b \in BOOLEAN
  BY DEF WorkersInOrder
<1>2. Told(w) = [w EXCEPT !.skip = b]
  BY DEF Told
<1>3. (w.skip => b) /\ (w.waiting # 0 => b) /\ (b => w.skip \/ w.waiting # 0)
  OBVIOUS
<1> HIDE DEF b
<1>4. Told(w) \in Workers /\ (Told(w).skip <=> b)
  BY <1>1, <1>2 DEF Workers
<1>5. /\ Told(w).active = w.active /\ Told(w).waiting = w.waiting
      /\ Told(w).installing = w.installing
  BY <1>1, <1>2 DEF Workers
<1> QED
  BY <1>1, <1>3, <1>4, <1>5 DEF WorkersInOrder, Later, Workers

\* What an update makes of a page that runs is kept, once its worker is told if need be.
KeptWhenTold(q, w) == PageKept(q, IF q.pending # Null /\ ~q.pending.plain THEN Told(w) ELSE w)

LEMMA ApplyKeeps ==
    ASSUME NEW p, NEW w, NEW manual, NEW offer, WorkersInOrder(w), PageKept(p, w), p.pending = Null,
           OfferKept(offer, p.build, w)
    PROVE  KeptWhenTold(Apply(p, manual, offer), w)
<1>1. WorkersInOrder(Told(w)) /\ PageKept(p, Told(w))
  BY ToldInOrder, LaterKeeps
<1>2. KeptWhenTold(p, w)
  BY DEF KeptWhenTold
<1>3. ASSUME NEW g PROVE ~offer.hasWaiting => KeptWhenTold([p EXCEPT !.guard = g, !.pending = [plain |-> TRUE, sure |-> offer.sure]], w)
  BY DEF KeptWhenTold, PageKept, PageFields, OfferKept
<1>4. ~offer.hasWaiting => KeptWhenTold([p EXCEPT !.pending = [plain |-> TRUE, sure |-> offer.sure]], w)
  BY DEF KeptWhenTold, PageKept, PageFields, OfferKept
<1>5. KeptWhenTold([p EXCEPT !.pending = [plain |-> FALSE, sure |-> offer.sure]], w)
  <2> DEFINE q == [p EXCEPT !.pending = [plain |-> FALSE, sure |-> offer.sure]]
  <2>1. w.waiting \in Nat /\ w.active \in Nat /\ p.build \in Nat /\ w \in Workers
    BY DEF WorkersInOrder, Workers, PageKept
  <2>2. p.build < w.waiting => Told(w).skip
    BY <2>1, ToldInOrder
  <2>3. Told(w).waiting = w.waiting /\ Told(w).active = w.active
    BY ToldInOrder
  <2>4. offer.sure => p.build < Told(w).active \/ (Told(w).skip /\ p.build < Told(w).waiting)
    BY <2>2, <2>3 DEF OfferKept
  <2>5. q.pending.sure = offer.sure /\ q.pending.plain = FALSE /\ q.build = p.build
    BY DEF PageKept, PageFields
  <2>6. \A v : PageKept(p, v) /\ (offer.sure => p.build < v.active \/ (v.skip /\ p.build < v.waiting))
                => PageKept(q, v)
    BY DEF PageKept, PageFields, OfferKept
  <2>7. PageKept(q, Told(w))
    BY <1>1, <2>4, <2>6
  <2>8. q.pending = Null => PageKept(q, w)
    BY DEF PageKept, PageFields
  <2> QED
    BY <2>5, <2>7, <2>8 DEF KeptWhenTold
<1> QED
  BY <1>2, <1>3, <1>4, <1>5 DEF Apply, AutoReload

LEMMA OnUpdateKeeps ==
    ASSUME NEW p, NEW w, NEW offer, WorkersInOrder(w), PageKept(p, w), p.pending = Null,
           OfferKept(offer, p.build, w)
    PROVE  KeptWhenTold(OnUpdateAvailable(p, offer), w)
<1>1. KeptWhenTold(p, w)
  BY DEF KeptWhenTold
<1>2. KeptWhenTold([p EXCEPT !.handled = TRUE, !.offer = offer, !.tabAway = TRUE], w)
  BY DEF KeptWhenTold, PageKept, PageFields
<1>3. KeptWhenTold(Apply(p, FALSE, offer), w)
  BY ApplyKeeps
<1>4. ASSUME NEW q, NEW x, KeptWhenTold(q, w) PROVE KeptWhenTold([q EXCEPT !.handled = x], w)
  BY <1>4 DEF KeptWhenTold, PageKept, PageFields
<1> QED
  BY <1>1, <1>2, <1>3, <1>4 DEF OnUpdateAvailable

\* A step of the code on tab t.
LEMMA HandledKeeps ==
    ASSUME TabsInv, deployed' = deployed, NEW t \in Tabs, NEW q, NEW w,
           WorkersInOrder(w), Later(worker, w), Handled(t, q, w),
           IF tabs[t].pending = Null THEN KeptWhenTold(q, w) ELSE PageKept(q, w)
    PROVE  TabsInv'
<1>1. WorkersInOrder(Told(w)) /\ Later(w, Told(w))
  BY ToldInOrder
<1>2. \A s \in Tabs : PageKept(tabs[s], w)
  BY LaterKeeps DEF TabsInv
<1>3. \A s \in Tabs : PageKept(tabs[s], Told(w))
  BY <1>1, <1>2, LaterKeeps
<1>4. PICK v \in {w, Told(w)} : worker' = v /\ PageKept(q, v)
  <2>1. CASE tabs[t].pending = Null /\ q.pending # Null /\ ~q.pending.plain
    BY <2>1 DEF Handled, KeptWhenTold, Told
  <2>2. CASE ~(tabs[t].pending = Null /\ q.pending # Null /\ ~q.pending.plain)
    BY <2>2 DEF Handled, KeptWhenTold
  <2> QED
    BY <2>1, <2>2
<1>5. \A s \in Tabs : PageKept([tabs EXCEPT ![t] = q][s], v)
  BY <1>2, <1>3, <1>4 DEF TabsInv
<1>6. WorkersInOrder(v)
  BY <1>1
<1>7. tabs' = [tabs EXCEPT ![t] = q]
  BY DEF Handled
<1> QED
  BY <1>4, <1>5, <1>6, <1>7 DEF TabsInv, PageKept, WorkersInOrder, OfferKept

\* A step that changes one tab and, at most, moves the worker on.
LEMMA TabKeeps ==
    ASSUME TabsInv, deployed' = deployed, NEW t \in Tabs, NEW q, NEW w,
           WorkersInOrder(w), Later(worker, w), PageKept(q, w),
           tabs' = [tabs EXCEPT ![t] = q], worker' = w
    PROVE  TabsInv'
<1>1. \A s \in Tabs : PageKept([tabs EXCEPT ![t] = q][s], w)
  BY LaterKeeps DEF TabsInv
<1> QED
  BY <1>1 DEF TabsInv, PageKept, WorkersInOrder, OfferKept

\* A step that changes every tab and the worker.
LEMMA TabsKept ==
    ASSUME TabsInv, deployed' = deployed, NEW w, WorkersInOrder(w), worker' = w,
           NEW f, tabs' = f, DOMAIN f = Tabs, \A t \in Tabs : PageKept(f[t], w)
    PROVE  TabsInv'
BY DEF TabsInv, PageKept, WorkersInOrder, OfferKept

LEMMA TabsStepKept == TabsInv /\ [SwNext]_swVars => TabsInv'
<1> SUFFICES ASSUME TabsInv, [SwNext]_swVars PROVE TabsInv'
  OBVIOUS
<1>1. /\ deployed \in Nat \ {0} /\ WorkersInOrder(worker) /\ DOMAIN tabs = Tabs
      /\ \A t \in Tabs : PageKept(tabs[t], worker)
  BY DEF TabsInv
<1>2. Later(worker, worker)
  BY <1>1 DEF Later, WorkersInOrder, Workers
<1>3. /\ WorkersInOrder(Update(worker)) /\ Later(worker, Update(worker))
      /\ Update(worker).waiting = worker.waiting
      /\ Update(worker).waiting = 0 /\ Update(worker).installing = 0 => Update(worker).active = deployed
  BY <1>1, UpdateInOrder
<1>4. \A t \in Tabs : PageKept(tabs[t], Update(worker))
  BY <1>1, <1>3, LaterKeeps
<1>5. ASSUME UNCHANGED swVars PROVE TabsInv'
  BY <1>5 DEF swVars, TabsInv, PageKept, WorkersInOrder, OfferKept
<1>6. ASSUME NEW t \in Tabs, OnRegisteredSW(t) PROVE TabsInv'
  <2> DEFINE q == [tabs[t] EXCEPT !.registered = TRUE, !.event = worker.waiting # 0]
  <2>1. worker' = Update(worker) /\ tabs' = [tabs EXCEPT ![t] = q] /\ deployed' = deployed
    BY <1>1, <1>6 DEF OnRegisteredSW
  <2>2. PageKept(q, Update(worker))
    BY <1>4 DEF PageKept, PageFields
  <2> QED
    BY <1>3, <2>1, <2>2, TabKeeps
<1>7. ASSUME NEW t \in Tabs, OnNeedRefresh(t) PROVE TabsInv'
  <2> DEFINE p == [tabs[t] EXCEPT !.event = FALSE]
  <2>1. /\ Handled(t, OnUpdateAvailable(p, Waiting(p, worker)), worker)
        /\ tabs[t].pending = Null /\ deployed' = deployed
    BY <1>7 DEF OnNeedRefresh, Running
  <2>2. PageKept(p, worker) /\ p.pending = tabs[t].pending
    BY <1>1 DEF PageKept, PageFields
  <2>3. OfferKept(Waiting(p, worker), p.build, worker)
    <3>1. p.build \in Nat /\ worker.waiting \in Nat
      BY <1>1, <2>2 DEF PageKept, WorkersInOrder, Workers
    <3> QED
      BY <3>1 DEF OfferKept, Waiting
  <2>4. KeptWhenTold(OnUpdateAvailable(p, Waiting(p, worker)), worker)
    BY <1>1, <2>1, <2>2, <2>3, OnUpdateKeeps
  <2> QED
    BY <1>1, <1>2, <2>1, <2>4, HandledKeeps
<1>8. \A p, w : PageKept(p, w) =>
          /\ PageKept(Fetching(p), w) /\ PageKept([Fetching(p) EXCEPT !.startup = FALSE], w)
          /\ PageKept([p EXCEPT !.check = Null], w) /\ [p EXCEPT !.check = Null].pending = p.pending
          /\ PageKept([p EXCEPT !.hidden = FALSE], w)
          /\ PageKept([p EXCEPT !.hidden = TRUE, !.tabAway = FALSE], w)
          /\ PageKept([p EXCEPT !.tabAway = FALSE], w)
  <2> SUFFICES ASSUME NEW p, NEW w, PageKept(p, w)
               PROVE  /\ PageKept(Fetching(p), w) /\ PageKept([Fetching(p) EXCEPT !.startup = FALSE], w)
                      /\ PageKept([p EXCEPT !.check = Null], w) /\ [p EXCEPT !.check = Null].pending = p.pending
                      /\ PageKept([p EXCEPT !.hidden = FALSE], w)
                      /\ PageKept([p EXCEPT !.hidden = TRUE, !.tabAway = FALSE], w)
                      /\ PageKept([p EXCEPT !.tabAway = FALSE], w)
    OBVIOUS
  <2>1. PageKept(Fetching(p), w)
    <3>1. PageKept([p EXCEPT !.check = [id |-> 0]], w)
      BY <1>1 DEF PageKept, PageFields
    <3> QED
      BY <3>1 DEF Fetching
  <2>2. PageKept([Fetching(p) EXCEPT !.startup = FALSE], w)
    BY <2>1 DEF PageKept, PageFields
  <2>3. PageKept([p EXCEPT !.check = Null], w) /\ [p EXCEPT !.check = Null].pending = p.pending
    BY DEF PageKept, PageFields
  <2>4. /\ PageKept([p EXCEPT !.hidden = FALSE], w)
        /\ PageKept([p EXCEPT !.hidden = TRUE, !.tabAway = FALSE], w)
        /\ PageKept([p EXCEPT !.tabAway = FALSE], w)
    BY DEF PageKept, PageFields
  <2> QED
    BY <2>1, <2>2, <2>3, <2>4
<1>9. ASSUME NEW t \in Tabs, Check(t) PROVE TabsInv'
  <2>1. /\ tabs' = [tabs EXCEPT ![t] = Fetching(tabs[t])] /\ deployed' = deployed
        /\ worker' \in {worker, Update(worker)}
    BY <1>9 DEF Check
  <2>2. PageKept(Fetching(tabs[t]), worker) /\ PageKept(Fetching(tabs[t]), Update(worker))
    BY <1>1, <1>4, <1>8
  <2> QED
    BY <1>1, <1>2, <1>3, <2>1, <2>2, TabKeeps
<1>10. ASSUME NEW t \in Tabs, StartupCheck(t) PROVE TabsInv'
  <2>1. /\ tabs' = [tabs EXCEPT ![t] = [Fetching(tabs[t]) EXCEPT !.startup = FALSE]]
        /\ deployed' = deployed /\ worker' = worker
    BY <1>10 DEF StartupCheck
  <2>2. PageKept([Fetching(tabs[t]) EXCEPT !.startup = FALSE], worker)
    BY <1>1, <1>8
  <2> QED
    BY <1>1, <1>2, <2>1, <2>2, TabKeeps
<1>11. ASSUME NEW t \in Tabs, VersionFetched(t) PROVE TabsInv'
  <2> DEFINE p == tabs[t]
             q == [p EXCEPT !.check = Null]
             r == [p EXCEPT !.check.id = deployed]
             o == OnUpdateAvailable(q, Reloadable(deployed, FALSE))
  <2>1. p.pending = Null /\ p.check # Null /\ deployed' = deployed
    BY <1>11 DEF VersionFetched, Running
  <2>2. \/ Handled(t, q, worker)
        \/ deployed # p.build /\ Handled(t, r, worker)
        \/ Handled(t, o, worker)
    BY <1>11 DEF VersionFetched
  <2>3. PageKept(q, worker) /\ q.pending = Null
    BY <1>1, <1>8, <2>1
  <2>4. KeptWhenTold(q, worker)
    BY <2>3 DEF KeptWhenTold
  <2>5. ASSUME deployed # p.build PROVE KeptWhenTold(r, worker)
    <3>1. PageKept(p, worker) /\ p.build < deployed
      BY <1>1, <2>5 DEF PageKept
    <3>2. r.pending = Null
      BY <2>1, <3>1 DEF PageKept, PageFields
    <3>3. PageKept(r, worker)
      BY <1>1, <2>1, <3>1 DEF PageKept, PageFields
    <3> QED
      BY <3>2, <3>3 DEF KeptWhenTold
  <2>6. OfferKept(Reloadable(deployed, FALSE), q.build, worker)
    BY DEF OfferKept, Reloadable
  <2>7. KeptWhenTold(o, worker)
    BY <1>1, <2>3, <2>6, OnUpdateKeeps
  <2> HIDE DEF p, q, r, o
  <2>8. p.pending = tabs[t].pending
    BY DEF p
  <2> QED
    BY <1>1, <1>2, <2>1, <2>2, <2>4, <2>5, <2>7, <2>8, HandledKeeps
<1>12. ASSUME NEW t \in Tabs, UpdateEnded(t) PROVE TabsInv'
  <2> DEFINE p == [tabs[t] EXCEPT !.check = Null]
             id == tabs[t].check.id
  <2>1. tabs[t].pending = Null /\ tabs[t].check # Null /\ id # 0 /\ deployed' = deployed
    BY <1>12 DEF UpdateEnded, Running
  <2>2. PICK w \in {worker, Update(worker)}, sure \in BOOLEAN :
          Handled(t, Settled(p, id, w, sure), w) /\ (sure => w = Update(worker))
    BY <1>12 DEF UpdateEnded
  <2>3. /\ WorkersInOrder(w) /\ Later(worker, w) /\ PageKept(tabs[t], w)
        /\ (w.waiting = 0 /\ w.installing = 0 /\ sure => w.active = deployed)
    BY <1>1, <1>2, <1>3, <1>4, <2>2
  <2>4. PageKept(p, w) /\ p.pending = Null
    BY <1>8, <2>1, <2>3
  <2>5. p.build = tabs[t].build /\ p.build < id /\ id \in Nat /\ id <= deployed /\ p.build \in Nat
    BY <1>1, <2>1 DEF PageKept, PageFields
  <2> HIDE DEF p, id
  <2>6. OfferKept(Waiting(p, w), p.build, w)
    <3>1. w.waiting \in Nat
      BY <2>3 DEF WorkersInOrder, Workers
    <3> QED
      BY <2>5, <3>1 DEF OfferKept, Waiting
  <2>7. KeptWhenTold(OnUpdateAvailable(p, Waiting(p, w)), w)
    BY <2>3, <2>4, <2>6, OnUpdateKeeps
  <2>8. ASSUME w.waiting = 0, w.installing = 0
        PROVE  KeptWhenTold(OnUpdateAvailable(p, Reloadable(id, sure)), w)
    <3>1. sure => p.build < w.active
      BY <1>1, <2>3, <2>5, <2>8
    <3>2. OfferKept(Reloadable(id, sure), p.build, w)
      BY <3>1 DEF OfferKept, Reloadable
    <3> QED
      BY <2>3, <2>4, <3>2, OnUpdateKeeps
  <2>9. KeptWhenTold(p, w)
    BY <2>4 DEF KeptWhenTold
  <2>10. KeptWhenTold(Settled(p, id, w, sure), w)
    BY <2>7, <2>8, <2>9 DEF Settled
  <2> QED
    BY <2>1, <2>2, <2>3, <2>10, HandledKeeps
<1>13. ASSUME NEW t \in Tabs, ApplyOnce(t) PROVE TabsInv'
  <2> DEFINE p == [tabs[t] EXCEPT !.tabAway = FALSE]
  <2>1. /\ tabs[t].pending = Null /\ tabs[t].offer # Null /\ deployed' = deployed
        /\ Handled(t, Apply(p, TRUE, tabs[t].offer), worker)
    BY <1>13 DEF ApplyOnce, Running
  <2>2. /\ PageKept(p, worker) /\ p.pending = Null
        /\ p.build = tabs[t].build /\ OfferKept(tabs[t].offer, p.build, worker)
    BY <1>1, <2>1 DEF PageKept, PageFields
  <2>3. KeptWhenTold(Apply(p, TRUE, tabs[t].offer), worker)
    BY <1>1, <2>2, ApplyKeeps
  <2> QED
    BY <1>1, <1>2, <2>1, <2>3, HandledKeeps
<1>14. ASSUME NEW t \in Tabs, Hide(t) PROVE TabsInv'
  <2> DEFINE p == [tabs[t] EXCEPT !.hidden = TRUE, !.tabAway = FALSE]
  <2>1. PageKept(p, worker) /\ p.pending = tabs[t].pending /\ p.build = tabs[t].build
    BY <1>1 DEF PageKept, PageFields
  <2>2. CASE tabs[t].tabAway /\ tabs[t].pending = Null
    <3>1. Handled(t, Apply(p, FALSE, tabs[t].offer), worker) /\ deployed' = deployed
      BY <1>14, <2>2 DEF Hide, Running
    <3>2. OfferKept(tabs[t].offer, p.build, worker)
      BY <1>1, <2>1, <2>2 DEF PageKept
    <3>3. KeptWhenTold(Apply(p, FALSE, tabs[t].offer), worker)
      BY <1>1, <2>1, <2>2, <3>2, ApplyKeeps
    <3> QED
      BY <1>1, <1>2, <2>2, <3>1, <3>3, HandledKeeps
  <2>3. CASE ~(tabs[t].tabAway /\ tabs[t].pending = Null)
    <3>1. Handled(t, p, worker) /\ deployed' = deployed
      BY <1>14, <2>3 DEF Hide, Running
    <3>2. tabs[t].pending = Null => KeptWhenTold(p, worker)
      BY <2>1 DEF KeptWhenTold
    <3> QED
      BY <1>1, <1>2, <2>1, <3>1, <3>2, HandledKeeps
  <2> QED
    BY <2>2, <2>3
<1>15. ASSUME NEW t \in Tabs, Show(t) PROVE TabsInv'
  <2> DEFINE p == [tabs[t] EXCEPT !.hidden = FALSE]
  <2>1. /\ deployed' = deployed
        /\ \/ tabs' = [tabs EXCEPT ![t] = Fetching(p)] /\ worker' = Update(worker)
           \/ tabs' = [tabs EXCEPT ![t] = p] /\ worker' = worker
    BY <1>15 DEF Show
  <2>2. PageKept(p, worker) /\ PageKept(Fetching(p), Update(worker))
    BY <1>1, <1>4, <1>8
  <2> QED
    BY <1>1, <1>2, <1>3, <2>1, <2>2, TabKeeps
<1>16. ASSUME Deploy PROVE TabsInv'
  <2>1. deployed' = deployed + 1 /\ worker' = worker /\ tabs' = tabs
    BY <1>16 DEF Deploy
  <2>2. WorkersInOrder(worker)'
    BY <1>1, <2>1 DEF WorkersInOrder, Workers
  <2>3. \A t \in Tabs : PageKept(tabs[t], worker)'
    BY <1>1, <2>1 DEF PageKept, OfferKept
  <2> QED
    BY <1>1, <2>1, <2>2, <2>3 DEF TabsInv
<1>17. ASSUME InstallEnds PROVE TabsInv'
  <2>1. worker.installing # 0 /\ ~worker.skip /\ deployed' = deployed
    BY <1>17 DEF InstallEnds
  <2>2. worker \in Workers
    BY <1>1 DEF WorkersInOrder
  <2>3. CASE worker.active = 0 /\ worker' = [worker EXCEPT !.active = worker.installing, !.installing = 0]
             /\ tabs' = tabs
    <3>1. worker.waiting = 0
      BY <1>1, <2>3 DEF WorkersInOrder
    <3> DEFINE w == [worker EXCEPT !.active = worker.installing, !.installing = 0]
    <3>2. /\ w \in Workers /\ w.active = worker.installing /\ w.waiting = 0
          /\ w.installing = 0 /\ w.skip = worker.skip
      BY <2>2, <3>1 DEF Workers
    <3>3. worker' = w
      BY <2>3
    <3> HIDE DEF w
    <3>4. WorkersInOrder(w) /\ Later(worker, w) /\ worker' = w
      BY <1>1, <2>1, <2>2, <2>3, <3>1, <3>2, <3>3 DEF WorkersInOrder, Workers, Later
    <3>5. \A t \in Tabs : PageKept(tabs[t], worker')
      BY <1>1, <3>4, LaterKeeps
    <3> QED
      BY <1>1, <2>1, <2>3, <3>4, <3>5, TabsKept
  <2>4. CASE /\ worker.active # 0
             /\ worker' = [worker EXCEPT !.waiting = worker.installing, !.installing = 0]
             /\ tabs' = [t \in Tabs |-> [tabs[t] EXCEPT !.event = @ \/ tabs[t].registered]]
    <3> DEFINE w == [worker EXCEPT !.waiting = worker.installing, !.installing = 0]
    <3>1. /\ w \in Workers /\ w.active = worker.active /\ w.waiting = worker.installing
          /\ w.installing = 0 /\ w.skip = worker.skip
      BY <2>2 DEF Workers
    <3>2. worker' = w
      BY <2>4
    <3> HIDE DEF w
    <3>3. WorkersInOrder(w) /\ Later(worker, w) /\ worker' = w
      BY <1>1, <2>1, <2>2, <2>4, <3>1, <3>2 DEF WorkersInOrder, Workers, Later
    <3>4. \A t \in Tabs : PageKept(tabs[t], worker')
      BY <1>1, <3>3, LaterKeeps
    <3>5. \A t \in Tabs, x \in BOOLEAN : PageKept([tabs[t] EXCEPT !.event = x], worker')
      BY <3>4 DEF PageKept, PageFields
    <3>6. \A t \in Tabs : (tabs[t].event \/ tabs[t].registered) \in BOOLEAN
      OBVIOUS
    <3> DEFINE f == [t \in Tabs |-> [tabs[t] EXCEPT !.event = @ \/ tabs[t].registered]]
    <3>7. DOMAIN f = Tabs /\ \A t \in Tabs : PageKept(f[t], worker')
      BY <3>5, <3>6
    <3> QED
      BY <2>1, <2>4, <3>3, <3>7, TabsKept
  <2>5. CASE worker' = [worker EXCEPT !.installing = 0] /\ tabs' = tabs
    <3>1. WorkersInOrder(worker') /\ Later(worker, worker')
      BY <1>1, <2>1, <2>2, <2>5 DEF WorkersInOrder, Workers, Later
    <3>2. \A t \in Tabs : PageKept(tabs[t], worker')
      BY <1>1, <3>1, LaterKeeps
    <3> QED
      BY <1>1, <2>1, <2>5, <3>1, <3>2, TabsKept
  <2> QED
    BY <1>17, <2>3, <2>4, <2>5 DEF InstallEnds
<1>18. ASSUME OtherTabApplies PROVE TabsInv'
  <2>1. /\ worker.waiting # 0 /\ deployed' = deployed /\ tabs' = tabs
        /\ worker' = [worker EXCEPT !.skip = TRUE]
    BY <1>18 DEF OtherTabApplies
  <2> DEFINE w == [worker EXCEPT !.skip = TRUE]
  <2>2. worker \in Workers
    BY <1>1 DEF WorkersInOrder
  <2>3. /\ w \in Workers /\ w.active = worker.active /\ w.waiting = worker.waiting
        /\ w.installing = worker.installing /\ w.skip = TRUE
    BY <2>2 DEF Workers
  <2>4. worker' = w
    BY <2>1
  <2> HIDE DEF w
  <2>5. WorkersInOrder(w) /\ Later(worker, w) /\ worker' = w
    BY <1>1, <2>1, <2>2, <2>3, <2>4 DEF WorkersInOrder, Workers, Later
  <2>6. \A t \in Tabs : PageKept(tabs[t], worker')
    BY <1>1, <2>5, LaterKeeps
  <2> QED
    BY <1>1, <2>1, <2>5, <2>6, TabsKept
<1>19. ASSUME NEW told, Activate(told) PROVE TabsInv'
  <2>1. /\ worker.waiting # 0 /\ deployed' = deployed
        /\ worker' = [worker EXCEPT !.active = worker.waiting, !.waiting = 0, !.skip = FALSE]
    BY <1>19 DEF Activate
  <2> DEFINE w == [worker EXCEPT !.active = worker.waiting, !.waiting = 0, !.skip = FALSE]
  <2>2. worker \in Workers
    BY <1>1 DEF WorkersInOrder
  <2>3. /\ w \in Workers /\ w.active = worker.waiting /\ w.waiting = 0
        /\ w.installing = worker.installing /\ w.skip = FALSE
    BY <2>2 DEF Workers
  <2>4. worker' = w
    BY <2>1
  <2> HIDE DEF w
  <2>5. WorkersInOrder(w) /\ Later(worker, w) /\ worker' = w
    BY <1>1, <2>1, <2>2, <2>3, <2>4 DEF WorkersInOrder, Workers, Later
  <2>6. \A t \in Tabs : PageKept(tabs[t], worker')
    BY <1>1, <2>5, LaterKeeps
  <2>7. \A t \in Tabs : PageKept([tabs[t] EXCEPT !.pending = [plain |-> TRUE, sure |-> FALSE]], worker')
    BY <2>6 DEF PageKept, PageFields
  <2>8. PICK elsewhere : tabs' = [t \in Tabs |-> IF t \in elsewhere
                                  THEN [tabs[t] EXCEPT !.pending = [plain |-> TRUE, sure |-> FALSE]]
                                  ELSE tabs[t]]
    BY <1>19 DEF Activate
  <2>9. DOMAIN tabs' = Tabs /\ \A t \in Tabs : PageKept(tabs'[t], worker')
    BY <2>6, <2>7, <2>8
  <2> QED
    BY <2>1, <2>5, <2>9, TabsKept
<1>20. ASSUME NEW t \in Tabs, Reload(t) PROVE TabsInv'
  <2> DEFINE p == tabs[t]
             Page(build, sure) == LoadedPage(build, p.hidden, p.guard, [from |-> p.build, sure |-> sure])
  <2>1. /\ p.pending # Null /\ (p.pending.plain \/ ~worker.skip)
        /\ deployed' = deployed /\ worker' = worker
    BY <1>20 DEF Reload
  <2>2. PICK build, sure :
          /\ tabs' = [tabs EXCEPT ![t] = Page(build, sure)]
          /\ \/ build = p.build /\ sure = FALSE
             \/ build = (IF worker.active = 0 THEN deployed ELSE worker.active) /\ sure = p.pending.sure
    BY <1>20 DEF Reload
  <2>3. PageKept(p, worker) /\ worker.active \in Nat /\ worker.active <= deployed
    BY <1>1 DEF WorkersInOrder, Workers
  <2>4. p.pending.sure => p.build < worker.active
    BY <2>1, <2>3 DEF PageKept
  <2>5. build \in Nat /\ build <= deployed /\ (sure => p.build < build)
    <3>1. p.build \in Nat /\ p.build <= deployed
      BY <2>3 DEF PageKept
    <3>2. CASE build = p.build /\ sure = FALSE
      BY <3>1, <3>2
    <3>3. CASE build = (IF worker.active = 0 THEN deployed ELSE worker.active) /\ sure = p.pending.sure
      BY <1>1, <2>3, <2>4, <3>1, <3>3
    <3> QED
      BY <2>2, <3>2, <3>3
  <2>6. PageKept(Page(build, sure), worker)
    BY <1>1, <2>5 DEF PageKept, PageFields, LoadedPage
  <2> HIDE DEF Page
  <2> QED
    BY <1>1, <1>2, <2>1, <2>2, <2>6, TabKeeps
<1> QED
  BY <1>5, <1>6, <1>7, <1>9, <1>10, <1>11, <1>12, <1>13, <1>14, <1>15, <1>16, <1>17, <1>18, <1>19, <1>20
  DEF SwNext, Progress

\* The reload that a toast or a hidden tab asked for after a check that succeeded gets a
\* newer build, for any tabs and any builds deployed, installed and taken over meanwhile
\* (setupSWUpdate's apply, autoReload and reload).
THEOREM ReloadsAdvance == SwSpec => []ReloadAdvances
<1>1. SwInit => TabsInv
  <2> SUFFICES ASSUME SwInit PROVE TabsInv
    OBVIOUS
  <2>1. PICK a \in 0 .. 1 : worker = [active |-> a, waiting |-> 0, installing |-> 0, skip |-> FALSE]
    BY DEF SwInit
  <2>2. deployed = 1 /\ tabs = [t \in Tabs |-> LoadedPage(1, FALSE, 0, Null)]
    BY DEF SwInit
  <2>3. a \in Nat /\ a <= 1
    BY <2>1
  <2>4. WorkersInOrder(worker)
    BY <2>1, <2>2, <2>3 DEF WorkersInOrder, Workers
  <2>5. PageKept(LoadedPage(1, FALSE, 0, Null), worker)
    BY <2>2 DEF PageKept, PageFields, LoadedPage
  <2>6. \A t \in Tabs : PageKept(tabs[t], worker)
    BY <2>2, <2>5
  <2>7. deployed \in Nat \ {0} /\ DOMAIN tabs = Tabs
    BY <2>2
  <2> QED
    BY <2>4, <2>6, <2>7 DEF TabsInv
<1>2. TabsInv => ReloadAdvances
  <2> SUFFICES ASSUME TabsInv, NEW t \in Tabs, tabs[t].last # Null, tabs[t].last.sure
               PROVE  tabs[t].build > tabs[t].last.from
    BY DEF ReloadAdvances
  <2> QED
    BY DEF TabsInv, PageKept
<1> QED
  BY <1>1, <1>2, TabsStepKept, PTL DEF SwSpec
-----------------------------------------------------------------------------
(* Setting up a device *)

\* Steps that leave the form's fields, the profile and the requests alone.
LEMMA SameForm ==
    ASSUME FormOK, AsksOK, gen' = gen, chosen' = chosen, drift' = drift, requests' = requests
    PROVE  FormOK' /\ AsksOK' /\ GetRequestData' = GetRequestData /\ QRShown' = QRShown
BY DEF FormOK, AsksOK, AsksAsShown, AskedHere, GetRequestData, QRShown

LEMMA SameCode ==
    ASSUME CodeOK, gen' = gen, chosen' = chosen, drift' = drift, links' = links
    PROVE  CodeOK'
BY DEF CodeOK, GetRequestData, QRShown

LEMMA SameDevice == DeviceOK /\ device' = device /\ links' = links => DeviceOK'
BY DEF DeviceOK

\* Another page: the form is gone or new, and its requests go on without it.
LEMMA GoingKeeps ==
    ASSUME SetupInv, NEW page, NEW g, Going(page, g), UNCHANGED <<chosen, drift, links, device>>
    PROVE  SetupInv'
<1>1. gen' \in {NewForm, Null} /\ requests' = Orphaned
  BY DEF Going
<1>2. NewForm \in Forms /\ NewForm.qr = Null
  BY DEF NewForm, Forms
<1>3. FormOK'
  BY <1>1, <1>2 DEF SetupInv, FormOK
<1>4. \A c \in requests' : c \in RequestsOK /\ c.orphan
  <2> SUFFICES ASSUME NEW c \in requests' PROVE c \in RequestsOK /\ c.orphan
    OBVIOUS
  <2>1. PICK d \in requests : c = [d EXCEPT !.orphan = TRUE]
    BY <1>1 DEF Orphaned
  <2>2. d \in RequestsOK
    BY DEF SetupInv, AsksOK
  <2> QED
    BY <2>1, <2>2 DEF RequestsOK
<1>5. AskedHere' = {}
  BY <1>4 DEF AskedHere
<1>6. AsksOK'
  BY <1>4, <1>5 DEF AsksOK, AsksAsShown
<1>7. ~QRShown'
  BY <1>1, <1>2 DEF QRShown
<1> QED
  BY <1>3, <1>6, <1>7, SameDevice DEF SetupInv, CodeOK

\* The form's other fields: what a request would ask for stays.
LEMMA FieldKeeps ==
    ASSUME SetupInv, gen # Null, NEW f, gen' = f, f \in Forms,
           f.device = gen.device, f.options = gen.options, f.qr = gen.qr,
           AskedHere' = AskedHere, AskedHere # {} => f.generating,
           requests' \subseteq RequestsOK, UNCHANGED <<chosen, drift, links, device>>
    PROVE  SetupInv'
<1>1. GetRequestData' = GetRequestData
  BY DEF GetRequestData
<1>2. FormOK'
  BY DEF SetupInv, FormOK
<1>3. AsksOK'
  <2>1. \A c, d \in AskedHere' : c = d
    BY DEF SetupInv, AsksOK, AsksAsShown
  <2>2. \A c \in AskedHere' : gen'.generating /\ (~drift'.asked => c.data = GetRequestData')
    BY <1>1 DEF SetupInv, AsksOK, AsksAsShown
  <2>3. gen' # Null
    BY SetupAssumption
  <2> QED
    BY <2>1, <2>2, <2>3 DEF AsksOK, AsksAsShown
<1>4. CodeOK'
  BY <1>1 DEF SetupInv, CodeOK, QRShown
<1> QED
  BY <1>2, <1>3, <1>4, SameDevice DEF SetupInv

\* A new link leaves the others as they are.
LEMMA LinkAdded ==
    ASSUME links \in Seq(Links), requests \subseteq RequestsOK, NEW c \in requests
    PROVE  LET l == Append(links, [data |-> c.data, live |-> TRUE])
           IN /\ l \in Seq(Links) /\ DOMAIN links \subseteq DOMAIN l
              /\ \A i \in DOMAIN links : l[i] = links[i]
              /\ Len(links) + 1 \in DOMAIN l /\ l[Len(links) + 1].data = c.data
              /\ Len(links) + 1 \in Nat
<1> DEFINE r == [data |-> c.data, live |-> TRUE]
<1>1. r \in Links /\ r.data = c.data
  BY DEF RequestsOK, Links
<1> HIDE DEF r
<1>2. LET l == Append(links, r)
      IN /\ l \in Seq(Links) /\ DOMAIN links \subseteq DOMAIN l
         /\ \A i \in DOMAIN links : l[i] = links[i]
         /\ Len(links) + 1 \in DOMAIN l /\ l[Len(links) + 1].data = c.data
         /\ Len(links) + 1 \in Nat
  BY <1>1
<1> QED
  BY <1>2 DEF r

LEMMA LinksGrow ==
    ASSUME DeviceOK, device' = device, DOMAIN links \subseteq DOMAIN links',
           \A i \in DOMAIN links : links'[i] = links[i]
    PROVE  DeviceOK'
BY DEF DeviceOK

LEMMA SetupKept == SetupInv /\ [SetupNext]_setupVars => SetupInv'
<1> SUFFICES ASSUME SetupInv, [SetupNext]_setupVars PROVE SetupInv'
  OBVIOUS
<1> USE SetupAssumption
<1>1. FormOK /\ AsksOK /\ CodeOK /\ DeviceOK
  BY DEF SetupInv
<1>2. ASSUME UNCHANGED <<gen, chosen, drift, requests, links, device>> PROVE SetupInv'
  BY <1>1, <1>2, SameForm, SameCode, SameDevice DEF SetupInv
<1>3. ASSUME \/ UNCHANGED setupVars
             \/ HandlePlatformClick \/ HandleGuideClose \/ CloseEnds \/ LimitAccess
      PROVE  SetupInv'
  BY <1>2, <1>3 DEF setupVars, HandlePlatformClick, HandleGuideClose, CloseEnds, LimitAccess
<1>4. ASSUME Navigate \/ HandleQuickSetup \/ HandleBack PROVE SetupInv'
  <2>1. PICK page, g : Going(page, g) /\ UNCHANGED <<chosen, drift, links, device>>
    BY <1>4 DEF Navigate, HandleQuickSetup, HandleBack
  <2> QED
    BY <2>1, GoingKeeps
<1>5. ASSUME SwitchActive PROVE SetupInv'
  <2>1. /\ chosen' \in SetupProfiles /\ drift' = [shown |-> TRUE, asked |-> TRUE]
        /\ gen' = gen /\ requests' = requests /\ links' = links /\ device' = device
    BY <1>5 DEF SwitchActive
  <2>2. FormOK'
    BY <1>1, <2>1 DEF FormOK
  <2>3. AsksOK'
    BY <1>1, <2>1 DEF AsksOK, AsksAsShown, AskedHere
  <2>4. CodeOK'
    BY <1>1, <2>1 DEF CodeOK, QRShown
  <2> QED
    BY <1>1, <2>1, <2>2, <2>3, <2>4, SameDevice DEF SetupInv
<1>6. ASSUME UpdateFormField PROVE SetupInv'
  <2>1. /\ gen # Null /\ drift' = [drift EXCEPT !.asked = TRUE]
        /\ chosen' = chosen /\ requests' = requests /\ links' = links /\ device' = device
    BY <1>6 DEF UpdateFormField
  <2>2. gen \in Forms
    BY <1>1, <2>1 DEF FormOK
  <2>3. gen' \in Forms /\ gen'.qr = Null /\ gen'.generating = gen.generating
    <3>1. \/ \E d \in {"", "named", "invalid"} : gen' = [[gen EXCEPT !.device = d] EXCEPT !.qr = Null, !.copied = FALSE]
          \/ \E o \in {"https", "tls"} : gen' = [[gen EXCEPT !.options = o] EXCEPT !.qr = Null, !.copied = FALSE]
      BY <1>6 DEF UpdateFormField, EditDevice, EditOptions, FormEffect
    <3> QED
      BY <2>2, <3>1 DEF Forms
  <2>4. FormOK' /\ drift'.asked = TRUE
    BY <1>1, <2>1, <2>3 DEF FormOK
  <2>5. AsksOK'
    BY <1>1, <2>1, <2>3, <2>4 DEF AsksOK, AsksAsShown, AskedHere
  <2>6. CodeOK'
    BY <1>1, <2>1, <2>3 DEF CodeOK, QRShown
  <2> QED
    BY <1>1, <2>1, <2>4, <2>5, <2>6, SameDevice DEF SetupInv
<1>7. ASSUME gen # Null, \E x, y : gen' = [gen EXCEPT !.advanced = x, !.copied = y] /\ x \in BOOLEAN /\ y \in BOOLEAN,
             UNCHANGED <<chosen, drift, requests, links, device>>
      PROVE  SetupInv'
  <2>1. PICK x, y : gen' = [gen EXCEPT !.advanced = x, !.copied = y] /\ x \in BOOLEAN /\ y \in BOOLEAN
    BY <1>7
  <2>2. gen \in Forms
    BY <1>1, <1>7 DEF FormOK
  <2>3. /\ gen' \in Forms /\ gen'.device = gen.device /\ gen'.options = gen.options
        /\ gen'.qr = gen.qr /\ gen'.generating = gen.generating
    BY <2>1, <2>2 DEF Forms
  <2>4. AskedHere' = AskedHere /\ (AskedHere # {} => gen.generating)
    BY <1>1, <1>7 DEF AskedHere, AsksOK, AsksAsShown
  <2> QED
    BY <1>1, <1>7, <2>3, <2>4, FieldKeeps DEF AsksOK
<1>8. ASSUME ToggleAdvanced \/ CopyShortLink \/ CopiedEnds PROVE SetupInv'
  <2>1. gen # Null /\ UNCHANGED <<chosen, drift, requests, links, device>>
    BY <1>8 DEF ToggleAdvanced, CopyShortLink, CopiedEnds, QRShown
  <2>2. gen \in Forms
    BY <1>1, <2>1 DEF FormOK
  <2>3. \E x, y : gen' = [gen EXCEPT !.advanced = x, !.copied = y] /\ x \in BOOLEAN /\ y \in BOOLEAN
    <3>1. CASE ToggleAdvanced
      <4>1. gen' = [gen EXCEPT !.advanced = ~gen.advanced]
        BY <3>1 DEF ToggleAdvanced
      <4>2. gen' = [gen EXCEPT !.advanced = ~gen.advanced, !.copied = gen.copied]
        BY <2>2, <4>1 DEF Forms
      <4> QED
        BY <2>2, <4>2 DEF Forms
    <3>2. CASE CopyShortLink \/ CopiedEnds
      <4>1. PICK y \in BOOLEAN : gen' = [gen EXCEPT !.copied = y]
        BY <3>2 DEF CopyShortLink, CopiedEnds
      <4>2. gen' = [gen EXCEPT !.advanced = gen.advanced, !.copied = y]
        BY <2>2, <4>1 DEF Forms
      <4> QED
        BY <2>2, <4>2 DEF Forms
    <3> QED
      BY <1>8, <3>1, <3>2
  <2> QED
    BY <1>7, <2>1, <2>3
<1>9. CanRequest => GetRequestData \in Data /\ gen \in Forms
  BY <1>1 DEF CanRequest, GetRequestData, Data, FormOK, Forms
<1>10. ASSUME DownloadMobileConfig PROVE SetupInv'
  <2> DEFINE r == [kind |-> "file", data |-> GetRequestData, orphan |-> FALSE]
  <2>1. /\ CanRequest /\ gen # Null /\ gen' = [gen EXCEPT !.downloading = TRUE] /\ requests' = requests \cup {r}
        /\ UNCHANGED <<chosen, drift, links, device>>
    BY <1>10 DEF DownloadMobileConfig, CanRequest
  <2>2. r \in RequestsOK /\ r.kind = "file"
    BY <1>9, <2>1 DEF RequestsOK
  <2> HIDE DEF r
  <2>3. AskedHere' = AskedHere
    BY <2>1, <2>2 DEF AskedHere
  <2>4. /\ gen' \in Forms /\ gen'.device = gen.device /\ gen'.options = gen.options
        /\ gen'.qr = gen.qr /\ gen'.generating = gen.generating
    BY <1>9, <2>1 DEF Forms
  <2>5. requests' \subseteq RequestsOK /\ (AskedHere # {} => gen.generating)
    BY <1>1, <2>1, <2>2 DEF AsksOK, AsksAsShown
  <2> QED
    BY <2>1, <2>3, <2>4, <2>5, FieldKeeps
<1>11. ASSUME GenerateQRCode PROVE SetupInv'
  <2> DEFINE r == [kind |-> "qr", data |-> GetRequestData, orphan |-> FALSE]
  <2>1. /\ CanRequest /\ ~gen.generating /\ gen # Null
        /\ gen' = [gen EXCEPT !.generating = TRUE, !.copied = FALSE]
        /\ requests' = requests \cup {r} /\ drift' = [drift EXCEPT !.asked = FALSE]
        /\ UNCHANGED <<chosen, links, device>>
    BY <1>11 DEF GenerateQRCode, CanRequest
  <2>2. r \in RequestsOK /\ r.data = GetRequestData /\ gen \in Forms
    BY <1>9, <2>1 DEF RequestsOK
  <2> HIDE DEF r
  <2>3. AskedHere = {}
    BY <1>1, <2>1 DEF AsksOK, AsksAsShown
  <2>4. /\ gen' \in Forms /\ gen'.device = gen.device /\ gen'.options = gen.options
        /\ gen'.qr = gen.qr /\ gen'.generating = TRUE
    BY <2>1, <2>2 DEF Forms
  <2>5. FormOK' /\ drift'.shown = drift.shown
    BY <1>1, <2>1, <2>4 DEF FormOK
  <2>6. GetRequestData' = GetRequestData
    BY <2>1, <2>4 DEF GetRequestData
  <2>7. AskedHere' \subseteq {r}
    BY <2>1, <2>3 DEF AskedHere
  <2>8. AsksOK'
    BY <1>1, <2>1, <2>2, <2>4, <2>6, <2>7 DEF AsksOK, AsksAsShown
  <2>9. CodeOK'
    BY <1>1, <2>1, <2>4, <2>5, <2>6 DEF CodeOK, QRShown
  <2> QED
    BY <1>1, <2>1, <2>5, <2>8, <2>9, SameDevice DEF SetupInv
<1>12. ASSUME NEW c \in requests, DownloadEnds(c) PROVE SetupInv'
  <2>1. /\ c.kind = "file" /\ requests' = requests \ {c} /\ UNCHANGED <<chosen, drift, links, device>>
        /\ gen' = IF c.orphan THEN gen ELSE [gen EXCEPT !.downloading = FALSE]
    BY <1>12 DEF DownloadEnds
  <2>2. AskedHere' = AskedHere
    BY <2>1 DEF AskedHere
  <2>3. requests' \subseteq RequestsOK /\ (AskedHere # {} => gen.generating)
    BY <1>1, <2>1 DEF AsksOK, AsksAsShown
  <2>4. CASE gen = Null
    <3>1. gen' = Null
      BY <1>1, <2>1, <2>4 DEF AsksOK
    <3>2. AsksOK'
      BY <1>1, <2>1, <2>3, <2>4, <3>1 DEF AsksOK, AsksAsShown, AskedHere
    <3>3. FormOK' /\ CodeOK'
      BY <1>1, <2>1, <3>1 DEF FormOK, CodeOK, QRShown
    <3> QED
      BY <1>1, <2>1, <3>2, <3>3, SameDevice DEF SetupInv
  <2>5. CASE gen # Null
    <3>1. gen \in Forms
      BY <1>1, <2>5 DEF FormOK
    <3>2. /\ gen' \in Forms /\ gen'.device = gen.device /\ gen'.options = gen.options
          /\ gen'.qr = gen.qr /\ gen'.generating = gen.generating
      BY <2>1, <3>1 DEF Forms
    <3> QED
      BY <2>1, <2>2, <2>3, <2>5, <3>2, FieldKeeps
  <2> QED
    BY <2>4, <2>5
<1>13. ASSUME NEW c \in requests, QRCodeEnds(c), c.orphan PROVE SetupInv'
  <2>1. /\ requests' = requests \ {c} /\ UNCHANGED <<gen, chosen, drift, device>>
        /\ links' \in {links, Append(links, [data |-> c.data, live |-> TRUE])}
    BY <1>13 DEF QRCodeEnds
  <2>2. AskedHere' = AskedHere
    BY <1>13, <2>1 DEF AskedHere
  <2>3. GetRequestData' = GetRequestData /\ FormOK' /\ QRShown' = QRShown
    BY <1>1, <2>1 DEF GetRequestData, FormOK, QRShown
  <2>4. AsksOK'
    BY <1>1, <2>1, <2>2, <2>3 DEF AsksOK, AsksAsShown
  <2>5. /\ links' \in Seq(Links) /\ DOMAIN links \subseteq DOMAIN links'
        /\ \A i \in DOMAIN links : links'[i] = links[i]
    BY <1>1, <2>1, LinkAdded DEF CodeOK, AsksOK
  <2>6. CodeOK'
    BY <1>1, <2>1, <2>3, <2>5 DEF CodeOK
  <2> QED
    BY <1>1, <2>1, <2>3, <2>4, <2>5, <2>6, LinksGrow DEF SetupInv
<1>14. ASSUME NEW c \in requests, QRCodeEnds(c), ~c.orphan PROVE SetupInv'
  <2>1. /\ c.kind = "qr" /\ requests' = requests \ {c} /\ UNCHANGED <<chosen, device>>
    BY <1>14 DEF QRCodeEnds
  <2>2. gen # Null /\ gen \in Forms /\ c \in AskedHere
    BY <1>1, <1>14, <2>1 DEF AsksOK, FormOK, AskedHere
  <2>3. AskedHere' = {}
    BY <1>1, <2>1, <2>2 DEF AskedHere, AsksOK, AsksAsShown
  <2>4. CASE /\ gen' = [gen EXCEPT !.generating = FALSE] /\ links' = links /\ drift' = drift
    <3>1. /\ gen' \in Forms /\ gen'.device = gen.device /\ gen'.options = gen.options
          /\ gen'.qr = gen.qr
      BY <2>2, <2>4 DEF Forms
    <3>2. GetRequestData' = GetRequestData /\ FormOK'
      BY <1>1, <2>1, <2>4, <3>1 DEF GetRequestData, FormOK
    <3>3. AsksOK'
      BY <1>1, <2>1, <2>3, <3>1 DEF AsksOK, AsksAsShown
    <3>4. CodeOK'
      BY <1>1, <2>2, <2>4, <3>1, <3>2 DEF CodeOK, QRShown
    <3> QED
      BY <1>1, <2>1, <2>4, <3>2, <3>3, <3>4, SameDevice DEF SetupInv
  <2>5. CASE /\ links' = Append(links, [data |-> c.data, live |-> TRUE])
             /\ gen' = [gen EXCEPT !.qr = Len(links) + 1, !.generating = FALSE]
             /\ drift' = [drift EXCEPT !.shown = drift.asked]
    <3>1. /\ links' \in Seq(Links) /\ DOMAIN links \subseteq DOMAIN links'
          /\ \A i \in DOMAIN links : links'[i] = links[i]
          /\ Len(links) + 1 \in DOMAIN links' /\ links'[Len(links) + 1].data = c.data
          /\ Len(links) + 1 \in Nat
      BY <1>1, <2>5, LinkAdded DEF CodeOK, AsksOK
    <3>2. /\ gen' \in Forms /\ gen'.device = gen.device /\ gen'.options = gen.options
          /\ gen'.qr = Len(links) + 1
      BY <2>2, <2>5, <3>1 DEF Forms
    <3>3. /\ drift' \in [shown : BOOLEAN, asked : BOOLEAN] /\ drift'.shown = drift.asked
      BY <1>1, <2>5 DEF FormOK
    <3>4. GetRequestData' = GetRequestData /\ FormOK'
      BY <1>1, <2>1, <3>2, <3>3 DEF GetRequestData, FormOK
    <3>5. AsksOK'
      BY <1>1, <2>1, <2>3, <3>2 DEF AsksOK, AsksAsShown
    <3>6. ~drift.asked => c.data = GetRequestData
      BY <1>1, <2>2 DEF AsksOK, AsksAsShown
    <3>7. CodeOK'
      BY <3>1, <3>2, <3>3, <3>4, <3>6 DEF CodeOK, QRShown
    <3> QED
      BY <1>1, <2>1, <3>1, <3>4, <3>5, <3>7, LinksGrow DEF SetupInv
  <2> QED
    BY <1>14, <2>4, <2>5 DEF QRCodeEnds
<1>15. ASSUME LinkExpires PROVE SetupInv'
  <2>1. PICK i \in DOMAIN links : links' = [links EXCEPT ![i].live = FALSE]
    BY <1>15 DEF LinkExpires
  <2>2. UNCHANGED <<gen, chosen, drift, requests, device>>
    BY <1>15 DEF LinkExpires
  <2>3. /\ links' \in Seq(Links) /\ DOMAIN links' = DOMAIN links
        /\ \A j \in DOMAIN links : links'[j].data = links[j].data
    <3>1. links \in Seq(Links) /\ links[i] \in Links
      BY <1>1 DEF CodeOK
    <3>2. [links[i] EXCEPT !.live = FALSE] \in Links /\ [links[i] EXCEPT !.live = FALSE].data = links[i].data
      BY <3>1 DEF Links
    <3> DEFINE l == [links[i] EXCEPT !.live = FALSE]
    <3>3. links' = [links EXCEPT ![i] = l]
      BY <2>1
    <3> HIDE DEF l
    <3>4. l \in Links /\ l.data = links[i].data
      BY <3>2 DEF l
    <3> QED
      BY <3>1, <3>3, <3>4
  <2>4. FormOK' /\ AsksOK' /\ GetRequestData' = GetRequestData /\ QRShown' = QRShown
    BY <1>1, <2>2, SameForm
  <2>5. CodeOK'
    BY <1>1, <2>2, <2>3, <2>4 DEF CodeOK
  <2>6. DeviceOK'
    BY <1>1, <2>2, <2>3 DEF DeviceOK
  <2> QED
    BY <2>4, <2>5, <2>6 DEF SetupInv
<1>16. ASSUME UNCHANGED <<gen, chosen, drift, requests, links>>, DeviceOK' PROVE SetupInv'
  BY <1>1, <1>16, SameForm, SameCode DEF SetupInv
<1>17. ASSUME NEW d, DOMAIN d = DeviceFields
       PROVE  LET e == Downloading(d)
              IN DOMAIN e = DeviceFields /\ e.code = d.code /\ e.want = d.want /\ e.got = d.got
  BY <1>17 DEF Downloading, DeviceFields
<1>18. ASSUME Scan PROVE SetupInv'
  <2>1. QRShown /\ UNCHANGED <<gen, chosen, drift, requests, links>>
    BY <1>18 DEF Scan
  <2>2. PICK ios \in BOOLEAN :
          device' = Downloading([code |-> gen.qr, ios |-> ios, loading |-> TRUE, error |-> FALSE,
                                 success |-> FALSE, asked |-> 0, got |-> Null,
                                 want |-> IF drift.shown THEN Null ELSE GetRequestData])
    BY <1>18 DEF Scan
  <2> DEFINE d == [code |-> gen.qr, ios |-> ios, loading |-> TRUE, error |-> FALSE,
                   success |-> FALSE, asked |-> 0, got |-> Null,
                   want |-> IF drift.shown THEN Null ELSE GetRequestData]
  <2>3. /\ DOMAIN d = DeviceFields /\ d.code = gen.qr /\ d.got = Null
        /\ d.want = IF drift.shown THEN Null ELSE GetRequestData
    BY DEF DeviceFields
  <2>4. device' = Downloading(d)
    BY <2>2
  <2> HIDE DEF d
  <2>5. DOMAIN device' = DeviceFields /\ device'.code = d.code /\ device'.want = d.want /\ device'.got = d.got
    BY <1>17, <2>3, <2>4
  <2>6. gen.qr \in DOMAIN links /\ (~drift.shown => links[gen.qr].data = GetRequestData)
    BY <1>1, <2>1 DEF CodeOK
  <2>7. DeviceOK'
    BY <2>1, <2>3, <2>5, <2>6 DEF DeviceOK
  <2> QED
    BY <1>16, <2>1, <2>7
<1>19. ASSUME Fetched PROVE SetupInv'
  <2>1. device # Null /\ UNCHANGED <<gen, chosen, drift, requests, links>>
    BY <1>19 DEF Fetched
  <2>2. DOMAIN device = DeviceFields
    BY <1>1, <2>1 DEF DeviceOK
  <2>3. /\ DOMAIN device' = DeviceFields /\ device'.code = device.code /\ device'.want = device.want
        /\ device'.got \in {device.got, links[device.code].data}
    BY <1>19, <2>2 DEF Fetched, DeviceFields
  <2>4. DeviceOK'
    BY <1>1, <2>1, <2>3 DEF DeviceOK
  <2> QED
    BY <1>16, <2>1, <2>4
<1>20. ASSUME RetryDownload PROVE SetupInv'
  <2>1. device # Null /\ device' = Downloading(device) /\ UNCHANGED <<gen, chosen, drift, requests, links>>
    BY <1>20 DEF RetryDownload
  <2>2. DOMAIN device = DeviceFields
    BY <1>1, <2>1 DEF DeviceOK
  <2>3. /\ DOMAIN device' = DeviceFields /\ device'.code = device.code /\ device'.want = device.want
        /\ device'.got = device.got
    BY <1>17, <2>1, <2>2
  <2>4. DeviceOK'
    BY <1>1, <2>1, <2>3 DEF DeviceOK
  <2> QED
    BY <1>16, <2>1, <2>4
<1> QED
  BY <1>3, <1>4, <1>5, <1>6, <1>8, <1>10, <1>11, <1>12, <1>13, <1>14, <1>15, <1>18, <1>19, <1>20
  DEF SetupNext

\* What a device installs after scanning the code is what the form and the profile said
\* then, for any profiles, edits, requests in flight and links that expire
\* (MobileconfigGenerator's effect on formData and generateQRCode, MobileconfigDownload).
THEOREM DevicesInstallWhatIsShown == SetupSpec => []InstalledAsShown
<1>1. SetupInit => SetupInv
  <2> SUFFICES ASSUME SetupInit PROVE SetupInv
    OBVIOUS
  <2>1. gen \in {NewForm, Null} /\ NewForm \in Forms /\ NewForm.qr = Null
    BY DEF SetupInit, NewForm, Forms
  <2>2. FormOK
    BY <2>1 DEF SetupInit, FormOK
  <2>3. AsksOK
    BY DEF SetupInit, AsksOK, AsksAsShown, AskedHere
  <2>4. links = << >> /\ << >> \in Seq(Links)
    BY DEF SetupInit
  <2>5. CodeOK
    BY <2>1, <2>4 DEF CodeOK, QRShown
  <2>6. DeviceOK
    BY DEF SetupInit, DeviceOK
  <2> QED
    BY <2>2, <2>3, <2>5, <2>6 DEF SetupInv
<1>2. SetupInv => InstalledAsShown
  BY DEF SetupInv, DeviceOK, InstalledAsShown
<1> QED
  BY <1>1, <1>2, SetupKept, PTL DEF SetupSpec
-----------------------------------------------------------------------------
(* What the data collection control announces *)

Collections == [set : States, start : Int]

\* StatsHeld and Deleted on a given day.
HeldOn(day, profile) ==
    IF profile.set.stats THEN Min({day - profile.start, profile.set.statsRetention}) ELSE Null

DeletedOn(day, from, set) ==
    (IF from.set.stats /\ ~set.stats THEN {"statistics"} ELSE {})
    \cup (IF from.set.logs /\ ~set.logs THEN {"logs"} ELSE {})
    \cup (IF from.set.stats /\ set.stats
             /\ Min({day - from.start, from.set.statsRetention}) > set.statsRetention
          THEN {"older counts"} ELSE {})
    \cup (IF from.set.logs /\ set.logs /\ set.retention < from.set.retention
          THEN {"older logs"} ELSE {})

\* What a patch of these settings to the pending ones deletes.
Lost(day, seen, pending) ==
    DeletedOn(day, seen, Patched(seen.set, BuildUpdates(seen.set, pending), pending))

\* What is pending of the staged settings, for an account that is restricted or not.
PendingOf(staged, saved, cut) ==
    IF cut THEN [saved EXCEPT !.stats = @ /\ staged.stats, !.logs = @ /\ staged.logs]
    ELSE staged

\* It was staged as it still is, by an account that may have been
\* cut off since.
Staged(pending, saved) ==
    \E cut \in BOOLEAN : (cut => limited) /\ pending = PendingOf(ctl.staged, saved, cut)

HandlerFields == {"kind", "saved", "pending", "dialog", "seen", "day", "mine"}

\* A patch of what the dialog looked at deletes at most what the dialog named; a check
\* closes over one copy.
Announced(c) ==
    /\ DOMAIN c = HandlerFields
    /\ c.saved \in States /\ c.pending \in States /\ c.seen \in Collections /\ c.day \in Int
    /\ c.mine \in BOOLEAN
    /\ c.kind = "check" => c.seen.set = c.saved
    /\ c.kind = "patch" /\ c.seen.set = c.saved => Lost(c.day, c.seen, c.pending) \subseteq c.dialog

ControlKinds == {"check", "patch", "recover"}

\* The control saves one change at a time, and a check that is its own still looks at
\* what is staged.
Saving(c) ==
    c.mine /\ c.kind \in ControlKinds =>
        /\ ctl.saving
        /\ c.kind = "check" => Staged(c.pending, c.saved)

OneSave == \A c, d \in saves :
    c.mine /\ d.mine /\ c.kind \in ControlKinds /\ d.kind \in ControlKinds => c = d

\* The dialog on the screen names what the change that is staged loses.
Announces ==
    ctl.confirm # Null =>
        /\ ctl.confirm.seen \in Collections /\ ctl.confirm.day \in Int
        /\ \E pending \in States :
              /\ Staged(pending, ctl.confirm.seen.set)
              /\ ctl.confirm.dialog =
                    TransitionFor(ctl.confirm.seen.set, pending,
                                  HeldOn(ctl.confirm.day, ctl.confirm.seen)).dialog

ControlFields == {"place", "staged", "auto", "saving", "confirm"}

ControlOK ==
    /\ DOMAIN ctl = ControlFields
    /\ ctl.staged \in States /\ ctl.saving \in BOOLEAN

WorldOK ==
    /\ dcServer \in Collections /\ dcCopy \in Collections
    /\ today \in Int /\ limited \in BOOLEAN

\* The part of the invariant that is about the control.
ControlInv ==
    /\ ControlOK /\ Announces /\ OneSave
    /\ \A c \in saves : Saving(c)

CollectionInv ==
    /\ WorldOK /\ ControlInv
    /\ \A c \in saves : Announced(c)

-----------------------------------------------------------------------------
SettingFields == {"stats", "logs", "statsRetention", "fields", "retention"}

LEMMA MinOfTwo ==
    ASSUME NEW a \in Int, NEW b \in Int
    PROVE  Min({a, b}) = IF a <= b THEN a ELSE b
<1>1. Min({a, b}) = CHOOSE x \in {a, b} : \A y \in {a, b} : x =< y
    BY DEF Min
<1>2. \E x \in {a, b} : \A y \in {a, b} : x =< y
    BY SMT
<1>3. Min({a, b}) \in {a, b} /\ \A y \in {a, b} : Min({a, b}) =< y
    BY <1>1, <1>2
<1> QED BY <1>3, SMT

LEMMA PatchedFields ==
    ASSUME NEW saved \in States, NEW pending \in States, NEW paths
    PROVE  /\ Patched(saved, paths, pending) \in States
           /\ \A f \in SettingFields :
                 Patched(saved, paths, pending)[f] = IF f \in paths THEN pending[f] ELSE saved[f]
BY DEF Patched, States, SettingFields, Retentions

\* What is lost is announced.
LEMMA LossAnnounced ==
    ASSUME NEW seen \in Collections, NEW pending \in States, NEW day \in Int
    PROVE  Lost(day, seen, pending)
               \subseteq TransitionFor(seen.set, pending, HeldOn(day, seen)).dialog
<1> DEFINE paths == BuildUpdates(seen.set, pending)
           next == Patched(seen.set, paths, pending)
           old == Min({day - seen.start, seen.set.statsRetention})
           told == TransitionFor(seen.set, pending, HeldOn(day, seen)).dialog
<1>1. seen.set \in States /\ seen.start \in Int
    BY DEF Collections
<1>2. /\ seen.set.stats \in BOOLEAN /\ seen.set.logs \in BOOLEAN
      /\ pending.stats \in BOOLEAN /\ pending.logs \in BOOLEAN
      /\ seen.set.statsRetention \in Int /\ seen.set.retention \in Int
      /\ pending.statsRetention \in Int /\ pending.retention \in Int
    BY <1>1 DEF States, Retentions
<1>3. old \in Int /\ old <= seen.set.statsRetention
  <2>1. day - seen.start \in Int
      BY <1>1
  <2> QED BY <2>1, <1>2, MinOfTwo
<1>4. /\ next.stats = IF "stats" \in paths THEN pending.stats ELSE seen.set.stats
      /\ next.logs = IF "logs" \in paths THEN pending.logs ELSE seen.set.logs
      /\ next.statsRetention = IF "statsRetention" \in paths THEN pending.statsRetention
                               ELSE seen.set.statsRetention
      /\ next.retention = IF "retention" \in paths THEN pending.retention ELSE seen.set.retention
    BY <1>1, PatchedFields DEF SettingFields
<1>5. /\ "stats" \in paths <=> seen.set.stats # pending.stats
      /\ "logs" \in paths <=> seen.set.logs # pending.logs
      /\ "statsRetention" \in paths <=> seen.set.statsRetention # pending.statsRetention /\ pending.stats
      /\ "retention" \in paths <=> seen.set.retention # pending.retention /\ pending.logs
    BY DEF BuildUpdates
<1>6. /\ next.stats = pending.stats /\ next.logs = pending.logs
      /\ pending.stats => next.statsRetention = pending.statsRetention
      /\ pending.logs => next.retention = pending.retention
    BY <1>4, <1>5
<1>7. told = StateTransition(seen.set, pending)
             \cup (IF RetentionChange(seen.set, pending) < 0
                      /\ ~NothingOlder(pending, HeldOn(day, seen))
                   THEN {"older counts"} ELSE {})
             \cup (IF LogsRetentionChange(seen.set, pending) < 0 THEN {"older logs"} ELSE {})
    BY DEF TransitionFor
<1>8. Lost(day, seen, pending) =
          (IF seen.set.stats /\ ~next.stats THEN {"statistics"} ELSE {})
          \cup (IF seen.set.logs /\ ~next.logs THEN {"logs"} ELSE {})
          \cup (IF seen.set.stats /\ next.stats /\ old > next.statsRetention
                THEN {"older counts"} ELSE {})
          \cup (IF seen.set.logs /\ next.logs /\ next.retention < seen.set.retention
                THEN {"older logs"} ELSE {})
    BY DEF Lost, DeletedOn
<1> HIDE DEF next, told, paths, old
<1>9. seen.set.stats /\ ~next.stats => "statistics" \in told
    BY <1>6, <1>7 DEF StateTransition
<1>10. seen.set.logs /\ ~next.logs => "logs" \in told
    BY <1>6, <1>7 DEF StateTransition
<1>11. ASSUME seen.set.stats, next.stats, old > next.statsRetention
       PROVE  "older counts" \in told
  <2>1. pending.stats /\ next.statsRetention = pending.statsRetention
      BY <1>6, <1>11
  <2>2. RetentionChange(seen.set, pending) = pending.statsRetention - seen.set.statsRetention
      BY <2>1, <1>11 DEF RetentionChange
  <2>3. RetentionChange(seen.set, pending) < 0
      BY <2>1, <2>2, <1>2, <1>3, <1>11
  <2>4. HeldOn(day, seen) = old
      BY <1>11 DEF HeldOn, old
  <2>5. ~NothingOlder(pending, HeldOn(day, seen))
      BY <2>1, <2>4, <1>2, <1>3, <1>11 DEF NothingOlder
  <2> QED BY <2>3, <2>5, <1>7
<1>12. ASSUME seen.set.logs, next.logs, next.retention < seen.set.retention
       PROVE  "older logs" \in told
  <2>1. pending.logs /\ next.retention = pending.retention
      BY <1>6, <1>12
  <2>2. LogsRetentionChange(seen.set, pending) = pending.retention - seen.set.retention
      BY <2>1, <1>12 DEF LogsRetentionChange
  <2>3. LogsRetentionChange(seen.set, pending) < 0
      BY <2>1, <2>2, <1>2, <1>12
  <2> QED BY <2>3, <1>7
<1>13. Lost(day, seen, pending) \subseteq told
    BY <1>8, <1>9, <1>10, <1>11, <1>12, Zenon
<1> QED BY <1>13 DEF told

\* A cut off account makes a part of the change.
LEMMA CutAnnouncesLess ==
    ASSUME NEW staged \in States, NEW saved \in States, NEW held
    PROVE  /\ PendingOf(staged, saved, TRUE) \in States
           /\ TransitionFor(saved, PendingOf(staged, saved, TRUE), held).dialog
                  \subseteq TransitionFor(saved, staged, held).dialog
<1> DEFINE cut == PendingOf(staged, saved, TRUE)
<1>1. /\ saved.stats \in BOOLEAN /\ staged.stats \in BOOLEAN
      /\ saved.logs \in BOOLEAN /\ staged.logs \in BOOLEAN
      /\ saved.statsRetention \in Int /\ saved.retention \in Int
    BY DEF States, Retentions
<1>2. cut \in States
    BY <1>1 DEF PendingOf, States
<1>3. /\ cut.stats = (saved.stats /\ staged.stats) /\ cut.logs = (saved.logs /\ staged.logs)
      /\ cut.statsRetention = saved.statsRetention /\ cut.retention = saved.retention
    BY <1>1 DEF PendingOf, States
<1> HIDE DEF cut
<1>4. RetentionChange(saved, cut) = 0 /\ LogsRetentionChange(saved, cut) = 0
    BY <1>1, <1>3 DEF RetentionChange, LogsRetentionChange
<1>5. TransitionFor(saved, cut, held).dialog = StateTransition(saved, cut)
    BY <1>4 DEF TransitionFor
<1>6. StateTransition(saved, cut) \subseteq StateTransition(saved, staged)
    BY <1>1, <1>3 DEF StateTransition
<1>7. StateTransition(saved, staged) \subseteq TransitionFor(saved, staged, held).dialog
    BY DEF TransitionFor
<1> QED BY <1>2, <1>5, <1>6, <1>7 DEF cut

-----------------------------------------------------------------------------
(* The control and its handlers *)

\* No handler of S is a save of the control that is on the screen.
NoOwn(S) == \A d \in S : ~(d.mine /\ d.kind \in ControlKinds)

\* Steps beside the control: what is staged stays, at most a dialog goes.
Beside ==
    /\ DOMAIN ctl' = ControlFields
    /\ ctl'.staged = ctl.staged /\ ctl'.saving = ctl.saving
    /\ ctl'.confirm \in {ctl.confirm, Null}
    /\ limited' \in BOOLEAN /\ (limited => limited')
    /\ \A c \in saves' : c.mine /\ c.kind \in ControlKinds => c \in saves

\* Steps after which the control has no dialog and saves nothing.
Afresh ==
    /\ ControlOK' /\ ctl'.confirm = Null
    /\ NoOwn(saves')

\* Steps of a save: n is the only one then, and what is staged stays.
Onward(n) ==
    /\ DOMAIN ctl' = ControlFields
    /\ ctl'.staged = ctl.staged /\ ctl'.saving = TRUE
    /\ ctl'.confirm \in {ctl.confirm, Null}
    /\ limited' = limited
    /\ \A c \in saves' : c.mine /\ c.kind \in ControlKinds => c = n
    /\ n.mine /\ n.kind = "check" => Staged(n.pending, n.saved)

LEMMA StagedStays ==
    ASSUME NEW pending, NEW saved, Staged(pending, saved), ctl'.staged = ctl.staged,
           limited => limited'
    PROVE  Staged(pending, saved)'
BY DEF Staged

LEMMA ToldStays ==
    ASSUME Announces, ctl'.staged = ctl.staged, ctl'.confirm \in {ctl.confirm, Null},
           limited => limited'
    PROVE  Announces'
<1> SUFFICES ASSUME ctl'.confirm # Null
             PROVE  /\ ctl'.confirm.seen \in Collections /\ ctl'.confirm.day \in Int
                    /\ \E pending \in States :
                          /\ Staged(pending, ctl.confirm.seen.set)'
                          /\ ctl'.confirm.dialog =
                                TransitionFor(ctl'.confirm.seen.set, pending,
                                              HeldOn(ctl'.confirm.day, ctl'.confirm.seen)).dialog
    BY DEF Announces
<1>1. PICK d : d = ctl.confirm
    OBVIOUS
<1>2. ctl'.confirm = d /\ d # Null
    BY <1>1
<1>3. /\ d.seen \in Collections /\ d.day \in Int
      /\ \E pending \in States :
            /\ Staged(pending, d.seen.set)
            /\ d.dialog = TransitionFor(d.seen.set, pending, HeldOn(d.day, d.seen)).dialog
    BY <1>1, <1>2 DEF Announces
<1>4. PICK pending \in States :
            /\ Staged(pending, d.seen.set)
            /\ d.dialog = TransitionFor(d.seen.set, pending, HeldOn(d.day, d.seen)).dialog
    BY <1>3
<1>5. Staged(pending, d.seen.set)'
    BY <1>4, StagedStays
<1>6. \E p \in States :
            /\ Staged(p, ctl.confirm.seen.set)'
            /\ d.dialog = TransitionFor(d.seen.set, p, HeldOn(d.day, d.seen)).dialog
    BY <1>2, <1>4, <1>5
<1> QED BY <1>2, <1>3, <1>6

LEMMA BesideKeeps ==
    ASSUME ControlInv, Beside
    PROVE  ControlInv'
<1>1. ControlOK'
    BY DEF ControlInv, ControlOK, Beside
<1>2. Announces'
    BY ToldStays DEF ControlInv, Beside
<1>3. OneSave'
    BY DEF ControlInv, OneSave, Beside
<1>4. ASSUME NEW c \in saves'
      PROVE  Saving(c)'
  <2> SUFFICES ASSUME c.mine, c.kind \in ControlKinds
               PROVE  ctl'.saving /\ (c.kind = "check" => Staged(c.pending, c.saved)')
      BY DEF Saving
  <2>1. c \in saves /\ Saving(c)
      BY DEF Beside, ControlInv
  <2>2. ctl.saving /\ (c.kind = "check" => Staged(c.pending, c.saved))
      BY <2>1 DEF Saving
  <2>3. ctl'.staged = ctl.staged /\ ctl'.saving = ctl.saving /\ (limited => limited')
      BY DEF Beside
  <2> QED BY <2>2, <2>3, StagedStays
<1> QED BY <1>1, <1>2, <1>3, <1>4 DEF ControlInv

LEMMA AfreshKeeps ==
    ASSUME Afresh
    PROVE  ControlInv'
BY DEF Afresh, NoOwn, ControlInv, Announces, OneSave, Saving

LEMMA OnwardKeeps ==
    ASSUME ControlInv, NEW n, Onward(n)
    PROVE  ControlInv'
<1>1. ControlOK'
    BY DEF ControlInv, ControlOK, Onward
<1>2. Announces'
    BY ToldStays DEF ControlInv, Onward
<1>3. OneSave'
    BY DEF OneSave, Onward
<1>4. ASSUME NEW c \in saves'
      PROVE  Saving(c)'
  <2> SUFFICES ASSUME c.mine, c.kind \in ControlKinds
               PROVE  ctl'.saving /\ (c.kind = "check" => Staged(c.pending, c.saved)')
      BY DEF Saving
  <2>1. c = n /\ ctl'.saving
      BY DEF Onward
  <2>2. ctl'.staged = ctl.staged /\ (limited => limited')
      BY DEF Onward
  <2>3. n.mine /\ n.kind = "check" => Staged(n.pending, n.saved)
      BY DEF Onward
  <2> QED BY <2>1, <2>2, <2>3, StagedStays
<1> QED BY <1>1, <1>2, <1>3, <1>4 DEF ControlInv

\* A control that is not saving has no save under way, and a save has no other beside it.
LEMMA OwnAlone ==
    ASSUME ControlInv
    PROVE  /\ ~ctl.saving => NoOwn(saves)
           /\ \A c \in saves : c.mine /\ c.kind \in ControlKinds => NoOwn(saves \ {c})
BY DEF ControlInv, NoOwn, Saving, OneSave

-----------------------------------------------------------------------------
(* The steps *)

LEMMA PendingStaged ==
    ASSUME WorldOK, ControlOK
    PROVE  /\ dcCopy.set \in States /\ Pending(ctl) \in States
           /\ Staged(Pending(ctl), dcCopy.set)
<1>1. dcCopy.set \in States /\ ctl.staged \in States /\ limited \in BOOLEAN
    BY DEF WorldOK, ControlOK, Collections
<1>2. Pending(ctl) = PendingOf(ctl.staged, dcCopy.set, limited)
    BY DEF Pending, PendingOf, SavedState
<1>3. Pending(ctl) \in States
    BY <1>1, <1>2, CutAnnouncesLess DEF PendingOf
<1> QED BY <1>1, <1>2, <1>3 DEF Staged

LEMMA SaveFields ==
    ASSUME NEW kind, NEW dialog
    PROVE  /\ DOMAIN Save(kind, dialog) = HandlerFields
           /\ Save(kind, dialog).kind = kind /\ Save(kind, dialog).dialog = dialog
           /\ Save(kind, dialog).saved = dcCopy.set /\ Save(kind, dialog).pending = Pending(ctl)
           /\ Save(kind, dialog).seen = dcCopy /\ Save(kind, dialog).day = today
           /\ Save(kind, dialog).mine = TRUE
BY DEF Save, SavedState, HandlerFields

\* A check, or a handler of the other dialogs, announces nothing itself.
LEMMA SaveAnnounced ==
    ASSUME WorldOK, ControlOK, NEW kind, NEW dialog, kind # "patch"
    PROVE  Announced(Save(kind, dialog))
<1>1. dcCopy.set \in States /\ Pending(ctl) \in States
    BY PendingStaged
<1>2. dcCopy \in Collections /\ today \in Int
    BY DEF WorldOK
<1>3. PICK c : c = Save(kind, dialog)
    OBVIOUS
<1>4. /\ DOMAIN c = HandlerFields /\ c.kind # "patch"
      /\ c.saved = dcCopy.set /\ c.pending = Pending(ctl)
      /\ c.seen = dcCopy /\ c.day = today /\ c.mine = TRUE
    BY <1>3 DEF Save, SavedState, HandlerFields
<1>5. Announced(c)
    BY <1>1, <1>2, <1>4 DEF Announced
<1> QED BY <1>3, <1>5

LEMMA StoredOK ==
    ASSUME WorldOK, NEW set \in States
    PROVE  Stored(set) \in Collections
BY DEF WorldOK, Collections, Stored

\* The user stages something.
LEMMA StagingStep ==
    ASSUME CollectionInv,
           \/ ToggleStats \/ ToggleLogs \/ Discard
           \/ \E r \in Retentions : StageStatsRetention(r)
           \/ \E fields \in BOOLEAN, r \in Retentions : StageLogsOptions(fields, r)
    PROVE  CollectionInv'
<1>1. /\ DOMAIN ctl = ControlFields /\ ctl.staged \in States /\ ctl.saving = FALSE
      /\ ctl.confirm = Null /\ NoOwn(saves)
  <2>1. ctl.confirm = Null /\ ~ctl.saving
      BY DEF ToggleStats, ToggleLogs, Discard, StageStatsRetention, StageLogsOptions, AtControl,
             BoxFree, StatsCard, LogsCard, PillsFree, ButtonsFree
  <2> QED BY <2>1, OwnAlone DEF CollectionInv, ControlInv, ControlOK
<1>2. /\ saves' = saves /\ dcServer' = dcServer /\ dcCopy' = dcCopy /\ today' = today
      /\ limited' = limited
    BY DEF ToggleStats, ToggleLogs, Discard, StageStatsRetention, StageLogsOptions, Quietly
<1>3. Pending(ctl) \in States /\ SavedState \in States
    BY PendingStaged DEF CollectionInv, ControlInv, SavedState
<1>4. /\ DOMAIN ctl' = ControlFields /\ ctl'.saving = FALSE /\ ctl'.confirm = Null
      /\ ctl'.staged \in States
  <2>1. CASE ToggleStats
      BY <1>1, <1>3, <2>1 DEF ToggleStats, States, ControlFields
  <2>2. CASE ToggleLogs
      BY <1>1, <1>3, <2>2 DEF ToggleLogs, States, ControlFields
  <2>3. CASE Discard
      BY <1>1, <1>3, <2>3 DEF Discard, ControlFields
  <2>4. CASE \E r \in Retentions : StageStatsRetention(r)
      BY <1>1, <2>4 DEF StageStatsRetention, Stage, States, ControlFields
  <2>5. CASE \E fields \in BOOLEAN, r \in Retentions : StageLogsOptions(fields, r)
    <3>1. PICK fields \in BOOLEAN, r \in Retentions :
              ctl' = [ctl EXCEPT !.staged = [ctl.staged EXCEPT !.fields = fields, !.retention = r]]
        BY <2>5, Zenon DEF StageLogsOptions, Stage
    <3> QED BY <1>1, <3>1 DEF States, ControlFields
  <2> QED BY <2>1, <2>2, <2>3, <2>4, <2>5
<1>5. Afresh
    BY <1>1, <1>2, <1>4 DEF Afresh, ControlOK, NoOwn
<1>6. WorldOK'
    BY <1>2 DEF CollectionInv, WorldOK
<1> QED BY <1>2, <1>5, <1>6, AfreshKeeps DEF CollectionInv

\* What happens around the control.
LEMMA AroundStep ==
    ASSUME CollectionInv,
           \/ ClearRequest \/ ClearDialog \/ LoaderRevalidates \/ LoseAccess \/ NextDay
           \/ \E set \in States : OtherTab(set)
    PROVE  CollectionInv'
<1>1. saves' = saves
    BY DEF ClearRequest, ClearDialog, LoaderRevalidates, LoseAccess, NextDay, OtherTab
<1>2. DOMAIN ctl = ControlFields
    BY DEF CollectionInv, ControlInv, ControlOK
<1>3. /\ DOMAIN ctl' = ControlFields
      /\ ctl'.staged = ctl.staged /\ ctl'.saving = ctl.saving /\ ctl'.confirm \in {ctl.confirm, Null}
  <2>1. CASE LoaderRevalidates
      BY <1>2, <2>1 DEF LoaderRevalidates, KeepListed, ControlFields
  <2>2. CASE ~LoaderRevalidates
      BY <1>2, <2>2 DEF ClearRequest, ClearDialog, LoseAccess, NextDay, OtherTab
  <2> QED BY <2>1, <2>2
<1>4. limited' \in BOOLEAN /\ (limited => limited')
    BY DEF ClearRequest, ClearDialog, LoaderRevalidates, LoseAccess, NextDay, OtherTab, CollectionInv,
           WorldOK
<1>5. WorldOK'
  <2>1. dcServer' \in Collections
      BY StoredOK
      DEF ClearRequest, ClearDialog, LoaderRevalidates, LoseAccess, NextDay, OtherTab, CollectionInv, WorldOK
  <2>2. dcCopy' \in Collections
      BY DEF ClearRequest, ClearDialog, LoaderRevalidates, LoseAccess, NextDay, OtherTab, CollectionInv,
             WorldOK
  <2>3. today' \in Int
      BY DEF ClearRequest, ClearDialog, LoaderRevalidates, LoseAccess, NextDay, OtherTab, CollectionInv,
             WorldOK
  <2> QED BY <2>1, <2>2, <2>3, <1>4 DEF WorldOK
<1>6. Beside
    BY <1>1, <1>3, <1>4 DEF Beside
<1> QED BY <1>1, <1>5, <1>6, BesideKeeps DEF CollectionInv

\* The dialog for the history of counts.
LEMMA HistoryStep ==
    ASSUME CollectionInv,
           \/ HistoryRequest \/ \E confirmed \in BOOLEAN : HistoryClose(confirmed)
           \/ \E c \in saves : HistoryChecked(c) \/ HistoryDeleted(c)
    PROVE  CollectionInv'
<1>1. WorldOK /\ ControlOK /\ DOMAIN ctl = ControlFields
    BY DEF CollectionInv, ControlInv, ControlOK
<1>2. PICK new : /\ new = {Save("historyCheck", {}), Save("historyDelete", {})}
                 /\ saves' \subseteq saves \cup new
  <2>1. saves' \subseteq saves \cup {Save("historyCheck", {}), Save("historyDelete", {})}
      BY DEF HistoryRequest, HistoryClose, HistoryChecked, HistoryDeleted
  <2> QED BY <2>1
<1>3. \A c \in new : Announced(c) /\ c.kind \notin ControlKinds
  <2>1. Announced(Save("historyCheck", {})) /\ Announced(Save("historyDelete", {}))
      BY <1>1, SaveAnnounced
  <2>2. Save("historyCheck", {}).kind = "historyCheck" /\ Save("historyDelete", {}).kind = "historyDelete"
      BY SaveFields
  <2> QED BY <1>2, <2>1, <2>2 DEF ControlKinds
<1>4. /\ DOMAIN ctl' = ControlFields
      /\ ctl'.staged = ctl.staged /\ ctl'.saving = ctl.saving /\ ctl'.confirm \in {ctl.confirm, Null}
    BY <1>1 DEF HistoryRequest, HistoryClose, HistoryChecked, HistoryDeleted, KeepListed, ControlFields
<1>5. WorldOK'
  <2>1. limited' = limited /\ today' = today
      BY DEF HistoryRequest, HistoryClose, HistoryChecked, HistoryDeleted
  <2>2. dcServer' \in Collections
      BY DEF HistoryRequest, HistoryClose, HistoryChecked, HistoryDeleted, CollectionInv, WorldOK,
             Collections
  <2>3. dcCopy' \in Collections
      BY <2>2 DEF HistoryRequest, HistoryClose, HistoryChecked, HistoryDeleted, CollectionInv, WorldOK
  <2> QED BY <2>1, <2>2, <2>3 DEF CollectionInv, WorldOK
<1>6. limited' = limited /\ limited \in BOOLEAN
    BY <1>1 DEF HistoryRequest, HistoryClose, HistoryChecked, HistoryDeleted, WorldOK
<1>7. Beside
    BY <1>2, <1>3, <1>4, <1>6 DEF Beside
<1> QED BY <1>2, <1>3, <1>5, <1>7, BesideKeeps DEF CollectionInv

\* The page is left, or a dialog closed without its change.
LEMMA LeavingStep ==
    ASSUME CollectionInv,
           \/ CancelConfirm
           \/ \E place \in {"settings", "dialog", "account"}, initial \in {Null, "stats", "logs"} :
                 Remount(place, initial)
    PROVE  CollectionInv'
<1>1. WorldOK /\ ControlInv /\ DOMAIN ctl = ControlFields /\ ctl.staged \in States
    BY DEF CollectionInv, ControlInv, ControlOK
<1>2. /\ dcServer' = dcServer /\ dcCopy' = dcCopy /\ today' = today /\ limited' = limited
    BY DEF CancelConfirm, Remount, Quietly
<1>3. WorldOK'
    BY <1>1, <1>2 DEF WorldOK
<1>4. dcCopy.set \in States
    BY <1>1 DEF WorldOK, Collections
<1>5. ControlOK' /\ ctl'.confirm = Null
  <2>1. CASE CancelConfirm
      BY <1>1, <1>4, <2>1 DEF CancelConfirm, Reset, ControlOK, ControlFields
  <2>2. CASE ~CancelConfirm
    <3>1. PICK place \in {"settings", "dialog", "account"}, initial \in {Null, "stats", "logs"} :
              ctl' = Inner(place, SavedState, initial)
        BY <2>2, Zenon DEF Remount
    <3> QED BY <1>4, <3>1 DEF Inner, SavedState, States, ControlOK, ControlFields
  <2> QED BY <2>1, <2>2
<1>6. \/ saves' = saves /\ ~ctl.saving
      \/ saves' = {[c EXCEPT !.mine = FALSE] : c \in saves}
    BY DEF CancelConfirm, ConfirmFree, Quietly, Remount
<1>7. \A c \in saves' : Announced(c)
  <2>1. ASSUME NEW c \in saves
        PROVE  Announced([c EXCEPT !.mine = FALSE])
      BY DEF CollectionInv, Announced, HandlerFields
  <2> QED BY <1>6, <2>1 DEF CollectionInv
<1>8. NoOwn(saves')
  <2>1. CASE saves' = saves /\ ~ctl.saving
      BY <1>1, <2>1, OwnAlone
  <2>2. CASE saves' = {[c EXCEPT !.mine = FALSE] : c \in saves}
    <3>1. ASSUME NEW c \in saves
          PROVE  ~[c EXCEPT !.mine = FALSE].mine
        BY DEF CollectionInv, Announced, HandlerFields
    <3> QED BY <2>2, <3>1 DEF NoOwn
  <2> QED BY <1>6, <2>1, <2>2
<1>9. Afresh
    BY <1>5, <1>8 DEF Afresh
<1> QED BY <1>3, <1>7, <1>9, AfreshKeeps DEF CollectionInv

LEMMA OnSaveStep ==
    ASSUME CollectionInv, OnSave
    PROVE  CollectionInv'
<1>1. WorldOK /\ ControlInv /\ ControlOK /\ DOMAIN ctl = ControlFields /\ limited \in BOOLEAN
    BY DEF CollectionInv, ControlInv, ControlOK, WorldOK
<1>2. NoOwn(saves)
    BY <1>1, OwnAlone DEF OnSave, ButtonsFree
<1>3. PICK n : n = Save("check", {})
    OBVIOUS
<1>4. Announced(n) /\ n.mine = TRUE /\ n.pending = Pending(ctl) /\ n.saved = dcCopy.set
    BY <1>1, <1>3, SaveAnnounced DEF Save, SavedState
<1>5. saves' = saves \cup {n} /\ ctl' = [ctl EXCEPT !.saving = TRUE]
    BY <1>3 DEF OnSave
<1>6. Staged(n.pending, n.saved)
    BY <1>1, <1>4, PendingStaged
<1>7. /\ DOMAIN ctl' = ControlFields /\ ctl'.staged = ctl.staged /\ ctl'.saving = TRUE
      /\ ctl'.confirm \in {ctl.confirm, Null}
    BY <1>1, <1>5 DEF ControlFields
<1>8. limited' = limited /\ WorldOK'
    BY <1>1 DEF OnSave, WorldOK
<1>9. Onward(n)
    BY <1>2, <1>5, <1>6, <1>7, <1>8 DEF Onward, NoOwn
<1> QED BY <1>1, <1>4, <1>5, <1>8, <1>9, OnwardKeeps DEF CollectionInv

\* The change that is confirmed is the one the dialog was opened for, or a part of it.
LEMMA ConfirmStep ==
    ASSUME CollectionInv, Confirm
    PROVE  CollectionInv'
<1>1. WorldOK /\ ControlInv /\ ControlOK /\ Announces /\ DOMAIN ctl = ControlFields /\ limited \in BOOLEAN
    BY DEF CollectionInv, ControlInv, ControlOK, WorldOK
<1>2. NoOwn(saves)
    BY <1>1, OwnAlone DEF Confirm, ConfirmFree
<1>3. PICK d : d = ctl.confirm
    OBVIOUS
<1>4. PICK staged, cut : staged = ctl.staged /\ cut = limited
    OBVIOUS
<1>5. /\ d.seen \in Collections /\ d.day \in Int
      /\ \E pending \in States :
            /\ Staged(pending, d.seen.set)
            /\ d.dialog = TransitionFor(d.seen.set, pending, HeldOn(d.day, d.seen)).dialog
    BY <1>1, <1>3 DEF Announces, Confirm, ConfirmFree
<1>6. PICK pending \in States :
            /\ Staged(pending, d.seen.set)
            /\ d.dialog = TransitionFor(d.seen.set, pending, HeldOn(d.day, d.seen)).dialog
    BY <1>5
<1>7. PICK n : n = [Save("patch", d.dialog) EXCEPT !.seen = d.seen, !.day = d.day]
    OBVIOUS
<1>8. /\ DOMAIN n = HandlerFields /\ n.kind = "patch" /\ n.saved = dcCopy.set
      /\ n.pending = Pending(ctl) /\ n.dialog = d.dialog /\ n.seen = d.seen /\ n.day = d.day
      /\ n.mine = TRUE
    BY <1>7 DEF Save, SavedState, HandlerFields
<1>9. dcCopy.set \in States /\ Pending(ctl) \in States /\ staged \in States
    BY <1>1, <1>4, PendingStaged DEF ControlOK
<1>10. ASSUME n.saved = n.seen.set
       PROVE  Lost(n.day, n.seen, n.pending) \subseteq n.dialog
  <2> DEFINE before == d.seen.set  held == HeldOn(d.day, d.seen)
  <2>1. before \in States
      BY <1>5 DEF Collections
  <2>2. n.pending = PendingOf(staged, before, cut)
      BY <1>8, <1>10, <1>4 DEF Pending, PendingOf, SavedState
  <2>3. PICK was \in BOOLEAN : (was => cut) /\ pending = PendingOf(staged, before, was)
      BY <1>6, <1>4 DEF Staged
  <2>4. TransitionFor(before, PendingOf(staged, before, cut), held).dialog
            \subseteq TransitionFor(before, PendingOf(staged, before, was), held).dialog
    <3>1. CASE was = cut
        BY <3>1
    <3>2. CASE was # cut
      <4>1. was = FALSE /\ cut = TRUE
          BY <3>2, <2>3, <1>1, <1>4
      <4>2. PendingOf(staged, before, FALSE) = staged
          BY DEF PendingOf
      <4> HIDE DEF before, held
      <4>3. TransitionFor(before, PendingOf(staged, before, TRUE), held).dialog
                \subseteq TransitionFor(before, staged, held).dialog
          BY <1>9, <2>1, CutAnnouncesLess
      <4> QED BY <4>1, <4>2, <4>3
    <3> QED BY <3>1, <3>2
  <2>5. n.pending \in States
      BY <1>8, <1>9
  <2>6. Lost(n.day, n.seen, n.pending) \subseteq TransitionFor(before, n.pending, held).dialog
      BY <1>5, <1>8, <2>5, LossAnnounced
  <2> QED BY <1>6, <1>8, <2>2, <2>3, <2>4, <2>6
<1>11. Announced(n)
    BY <1>5, <1>8, <1>9, <1>10 DEF Announced
<1>12. saves' = saves \cup {n} /\ ctl' = [ctl EXCEPT !.saving = TRUE]
    BY <1>3, <1>7 DEF Confirm
<1>13. /\ DOMAIN ctl' = ControlFields /\ ctl'.staged = ctl.staged /\ ctl'.saving = TRUE
       /\ ctl'.confirm \in {ctl.confirm, Null}
    BY <1>1, <1>12 DEF ControlFields
<1>14. limited' = limited /\ WorldOK'
    BY <1>1 DEF Confirm, WorldOK
<1>15. Onward(n)
    BY <1>2, <1>8, <1>12, <1>13, <1>14 DEF Onward, NoOwn
<1> QED BY <1>1, <1>11, <1>12, <1>14, <1>15, OnwardKeeps DEF CollectionInv

\* A handler that ends and resets the control it belongs to; another one leaves it alone.
LEMMA EndStep ==
    ASSUME CollectionInv, NEW c \in saves, WorldOK', limited' = limited,
           c.kind \in ControlKinds, saves' = saves \ {c},
           DOMAIN ctl' = ControlFields,
           c.mine => ctl'.staged \in States /\ ctl'.saving = FALSE /\ ctl'.confirm = Null,
           ~c.mine => /\ ctl'.staged = ctl.staged /\ ctl'.saving = ctl.saving
                      /\ ctl'.confirm \in {ctl.confirm, Null}
    PROVE  CollectionInv'
<1>1. ControlInv /\ limited' \in BOOLEAN
    BY DEF CollectionInv, WorldOK
<1>2. CASE c.mine
  <2>1. NoOwn(saves')
      BY <1>1, <1>2, OwnAlone
  <2>2. Afresh
      BY <1>2, <2>1 DEF Afresh, ControlOK
  <2> QED BY <2>2, AfreshKeeps DEF CollectionInv
<1>3. CASE ~c.mine
  <2>1. Beside
      BY <1>1, <1>3 DEF Beside
  <2> QED BY <1>1, <2>1, BesideKeeps DEF CollectionInv
<1> QED BY <1>2, <1>3

LEMMA CheckStaleStep ==
    ASSUME CollectionInv, NEW c \in saves, CheckStale(c)
    PROVE  CollectionInv'
<1>1. WorldOK /\ DOMAIN ctl = ControlFields /\ c.mine \in BOOLEAN
    BY DEF CollectionInv, ControlInv, ControlOK, Announced
<1>2. WorldOK' /\ limited' = limited /\ c.kind \in ControlKinds /\ saves' = saves \ {c}
    BY <1>1 DEF CheckStale, WorldOK, ControlKinds
<1>3. dcServer.set \in States
    BY <1>1 DEF WorldOK, Collections
<1>4. /\ DOMAIN ctl' = ControlFields
      /\ c.mine => ctl'.staged \in States /\ ctl'.saving = FALSE /\ ctl'.confirm = Null
      /\ ~c.mine => /\ ctl'.staged = ctl.staged /\ ctl'.saving = ctl.saving
                    /\ ctl'.confirm \in {ctl.confirm, Null}
    BY <1>1, <1>3 DEF CheckStale, KeepListed, Own, Reset, ControlFields
<1> QED BY <1>2, <1>4, EndStep

LEMMA RecoverStep ==
    ASSUME CollectionInv, NEW c \in saves, Recover(c)
    PROVE  CollectionInv'
<1>1. WorldOK /\ DOMAIN ctl = ControlFields /\ c.mine \in BOOLEAN /\ c.saved \in States
    BY DEF CollectionInv, ControlInv, ControlOK, Announced
<1>2. WorldOK' /\ limited' = limited /\ c.kind \in ControlKinds /\ saves' = saves \ {c}
    BY <1>1 DEF Recover, WorldOK, ControlKinds
<1>3. dcServer.set \in States
    BY <1>1 DEF WorldOK, Collections
<1>4. /\ DOMAIN ctl' = ControlFields
      /\ c.mine => ctl'.staged \in States /\ ctl'.saving = FALSE /\ ctl'.confirm = Null
      /\ ~c.mine => /\ ctl'.staged = ctl.staged /\ ctl'.saving = ctl.saving
                    /\ ctl'.confirm \in {ctl.confirm, Null}
    BY <1>1, <1>3 DEF Recover, KeepListed, Own, Reset, ControlFields
<1> QED BY <1>2, <1>4, EndStep

\* The patch goes on to read the profile back, as another handler in its place.
LEMMA HandedOn ==
    ASSUME CollectionInv, NEW c \in saves, NEW n, WorldOK', limited' = limited,
           c.kind \in ControlKinds, n.kind \in ControlKinds \ {"check"}, n.mine = c.mine,
           Announced(n), saves' = (saves \ {c}) \cup {n}, ctl' = ctl
    PROVE  CollectionInv'
<1>1. ControlInv /\ limited' \in BOOLEAN /\ DOMAIN ctl = ControlFields
    BY DEF CollectionInv, WorldOK, ControlInv, ControlOK
<1>2. CASE c.mine
  <2>1. NoOwn(saves \ {c}) /\ ctl.saving = TRUE
    <3>1. ctl.saving /\ ctl.saving \in BOOLEAN
        BY <1>1, <1>2 DEF ControlInv, Saving, ControlOK
    <3> QED BY <1>1, <1>2, <3>1, OwnAlone
  <2>2. Onward(n)
      BY <1>1, <2>1 DEF Onward, NoOwn
  <2> QED BY <1>1, <2>2, OnwardKeeps DEF CollectionInv
<1>3. CASE ~c.mine
  <2>1. Beside
      BY <1>1, <1>3 DEF Beside
  <2> QED BY <1>1, <2>1, BesideKeeps DEF CollectionInv
<1> QED BY <1>2, <1>3

\* The check is over: the change is made, or its dialog opens.
LEMMA CheckAnsweredStep ==
    ASSUME CollectionInv, NEW c \in saves, CheckAnswered(c)
    PROVE  CollectionInv'
<1>1. /\ WorldOK /\ ControlInv /\ ControlOK /\ DOMAIN ctl = ControlFields /\ Announced(c)
      /\ c.kind = "check" /\ today \in Int /\ limited' = limited
    BY DEF CollectionInv, ControlInv, ControlOK, CheckAnswered, WorldOK
<1>2. /\ DOMAIN c = HandlerFields /\ c.saved \in States /\ c.pending \in States
      /\ c.seen \in Collections /\ c.seen.set = c.saved /\ c.mine \in BOOLEAN
    BY <1>1 DEF Announced
<1>3. WorldOK'
    BY <1>1 DEF CheckAnswered, WorldOK
<1>4. PICK fresh, day : /\ fresh \in {dcServer, c.seen} /\ day = today
                        /\ fresh.set = c.saved /\ CheckDone(c, fresh)
    BY <1>2 DEF CheckAnswered
<1>5. fresh \in Collections /\ day \in Int
    BY <1>1, <1>2, <1>4 DEF WorldOK
<1>6. StatsHeld(fresh) = HeldOn(day, fresh)
    BY <1>4 DEF StatsHeld, HeldOn
<1>7. PICK told : told = TransitionFor(c.saved, c.pending, HeldOn(day, fresh)).dialog
    OBVIOUS
<1>8. CASE told # {}
  <2>1. /\ ctl' = IF c.mine THEN [ctl EXCEPT !.saving = FALSE,
                                  !.confirm = [dialog |-> told, seen |-> fresh, day |-> day]]
                 ELSE ctl
        /\ saves' = saves \ {c}
      BY <1>4, <1>6, <1>7, <1>8 DEF CheckDone, Own
  <2>2. CASE c.mine
    <3>1. ctl'.staged = ctl.staged /\ DOMAIN ctl' = ControlFields /\ ctl'.saving = FALSE
        BY <1>1, <2>1, <2>2 DEF ControlFields
    <3>2. ctl'.confirm = [dialog |-> told, seen |-> fresh, day |-> day]
        BY <1>1, <2>1, <2>2 DEF ControlFields
    <3>3. ctl'.confirm.seen = fresh /\ ctl'.confirm.day = day /\ ctl'.confirm.dialog = told
        BY <3>2
    <3>4. Staged(c.pending, c.saved)
        BY <1>1, <2>2 DEF ControlInv, Saving, ControlKinds
    <3>5. Staged(c.pending, c.saved)'
        BY <1>1, <3>1, <3>4, StagedStays
    <3>6. Staged(c.pending, ctl.confirm.seen.set)'
        BY <1>4, <3>3, <3>5
    <3>7. ctl'.confirm.dialog = TransitionFor(ctl'.confirm.seen.set, c.pending,
                                              HeldOn(ctl'.confirm.day, ctl'.confirm.seen)).dialog
        BY <1>4, <1>7, <3>3
    <3>8. Announces'
        BY <1>2, <1>5, <3>3, <3>6, <3>7 DEF Announces
    <3>9. NoOwn(saves')
        BY <1>1, <2>1, <2>2, OwnAlone DEF ControlKinds
    <3>10. ControlOK'
        BY <1>1, <3>1 DEF ControlOK
    <3>11. ControlInv'
        BY <3>8, <3>9, <3>10 DEF ControlInv, NoOwn, OneSave, Saving
    <3> QED BY <1>3, <2>1, <3>11 DEF CollectionInv
  <2>3. CASE ~c.mine
    <3>1. Beside
        BY <1>1, <2>1, <2>3 DEF Beside, WorldOK
    <3> QED BY <1>1, <1>3, <2>1, <3>1, BesideKeeps DEF CollectionInv
  <2> QED BY <2>2, <2>3
<1>9. CASE told = {}
  <2>1. PICK n : n = [c EXCEPT !.kind = "patch", !.seen = fresh, !.day = day]
      OBVIOUS
  <2>2. saves' = (saves \ {c}) \cup {n} /\ ctl' = ctl
      BY <1>4, <1>6, <1>7, <1>9, <2>1 DEF CheckDone
  <2>3. /\ DOMAIN n = HandlerFields /\ n.kind = "patch" /\ n.saved = c.saved
        /\ n.pending = c.pending /\ n.seen = fresh /\ n.day = day /\ n.mine = c.mine
      BY <1>2, <2>1 DEF HandlerFields
  <2>4. Lost(day, fresh, c.pending) \subseteq told
      BY <1>2, <1>4, <1>5, <1>7, LossAnnounced
  <2>5. Announced(n)
      BY <1>2, <1>5, <1>9, <2>3, <2>4 DEF Announced
  <2>6. c.kind \in ControlKinds /\ n.kind \in ControlKinds \ {"check"}
      BY <1>1, <2>3 DEF ControlKinds
  <2> QED BY <1>1, <1>3, <2>2, <2>3, <2>5, <2>6, HandedOn
<1> QED BY <1>8, <1>9

\* The profile is read back after an error.
LEMMA ErrorStep ==
    ASSUME CollectionInv, NEW c \in saves, c.kind = "patch", WorldOK', limited' = limited,
           saves' = (saves \ {c}) \cup {[c EXCEPT !.kind = "recover"]}, ctl' = ctl
    PROVE  CollectionInv'
<1>1. PICK n : n = [c EXCEPT !.kind = "recover"]
    OBVIOUS
<1>2. Announced(c)
    BY DEF CollectionInv
<1>3. n.kind = "recover" /\ n.mine = c.mine /\ Announced(n)
    BY <1>1, <1>2 DEF Announced, HandlerFields
<1>4. c.kind \in ControlKinds /\ n.kind \in ControlKinds \ {"check"}
    BY <1>3 DEF ControlKinds
<1> QED BY <1>1, <1>3, <1>4, HandedOn

LEMMA CommitStep ==
    ASSUME CollectionInv, NEW c \in saves, Commit(c) \/ CommitFails(c)
    PROVE  CollectionInv'
<1>1. /\ WorldOK /\ DOMAIN ctl = ControlFields /\ c.mine \in BOOLEAN /\ c.pending \in States
      /\ c.kind = "patch" /\ limited' = limited
    BY DEF CollectionInv, ControlInv, ControlOK, Announced, Commit, CommitFails
<1>2. CASE CommitFails(c)
    BY <1>1, <1>2, ErrorStep DEF CommitFails, WorldOK
<1>3. CASE Commit(c)
  <2>1. dcServer' \in Collections
    <3>1. PICK set : set = Patched(dcServer.set, BuildUpdates(c.saved, c.pending), c.pending)
        OBVIOUS
    <3>2. dcServer.set \in States
        BY <1>1 DEF WorldOK, Collections
    <3>3. set \in States
        BY <1>1, <3>1, <3>2, PatchedFields
    <3>4. dcServer' = Stored(set)
        BY <1>3, <3>1 DEF Commit
    <3> QED BY <1>1, <3>3, <3>4, StoredOK
  <2>2. today' = today
      BY <1>3 DEF Commit
  <2>3. CASE saves' = saves \ {c} /\ dcCopy' = dcServer'
                  /\ ctl' = KeepListed(Own(c, DialogSaved(Reset(dcServer'))), dcServer')
    <3>1. WorldOK'
        BY <1>1, <2>1, <2>2, <2>3 DEF WorldOK
    <3>2. PICK now \in Collections : now = dcServer'
        BY <2>1
    <3>3. now.set \in States
        BY DEF Collections
    <3>4. ctl' = KeepListed(Own(c, DialogSaved(Reset(now))), now)
        BY <2>3, <3>2
    <3>5. /\ DOMAIN Reset(now) = ControlFields /\ Reset(now).staged = now.set
          /\ Reset(now).saving = FALSE /\ Reset(now).confirm = Null
        BY <1>1 DEF Reset, ControlFields
    <3>6. PICK own : own = DialogSaved(Reset(now))
        OBVIOUS
    <3>7. /\ DOMAIN own = ControlFields /\ own.staged = now.set
          /\ own.saving = FALSE /\ own.confirm = Null
        BY <3>5, <3>6 DEF DialogSaved, ControlFields
    <3>8. ctl' = KeepListed(IF c.mine THEN own ELSE ctl, now)
        BY <3>4, <3>6 DEF Own
    <3>9. /\ DOMAIN ctl' = ControlFields
          /\ c.mine => ctl'.staged \in States /\ ctl'.saving = FALSE /\ ctl'.confirm = Null
          /\ ~c.mine => /\ ctl'.staged = ctl.staged /\ ctl'.saving = ctl.saving
                        /\ ctl'.confirm \in {ctl.confirm, Null}
        BY <1>1, <3>3, <3>7, <3>8 DEF KeepListed, ControlFields
    <3>10. c.kind \in ControlKinds
        BY <1>1 DEF ControlKinds
    <3> QED BY <1>1, <2>3, <3>1, <3>9, <3>10, EndStep
  <2>4. CASE /\ saves' = (saves \ {c}) \cup {[c EXCEPT !.kind = "recover"]}
             /\ dcCopy' = dcCopy /\ ctl' = ctl
    <3>1. WorldOK'
        BY <1>1, <2>1, <2>2, <2>4 DEF WorldOK
    <3> QED BY <1>1, <2>4, <3>1, ErrorStep
  <2> QED BY <1>3, <2>3, <2>4 DEF Commit
<1> QED BY <1>2, <1>3

LEMMA CollectionStart ==
    ASSUME DataCollectionInit
    PROVE  CollectionInv
<1>1. MaxDay \in Nat
    BY DataCollectionBounds
<1>2. PICK set \in States : dcServer = [set |-> set, start |-> 0]
    BY DEF DataCollectionInit
<1>3. WorldOK
  <2>1. [set |-> set, start |-> 0] \in Collections
      BY DEF Collections
  <2>2. dcCopy = dcServer /\ today = MaxDay - 1 /\ limited = FALSE
      BY DEF DataCollectionInit
  <2>3. today \in Int
      BY <1>1, <2>2
  <2> QED BY <1>2, <2>1, <2>2, <2>3 DEF WorldOK
<1>4. dcCopy.set = set
    BY <1>2 DEF DataCollectionInit
<1>5. ControlOK /\ ctl.confirm = Null
    BY <1>4 DEF DataCollectionInit, Inner, ControlOK, ControlFields, States
<1>6. saves = {}
    BY DEF DataCollectionInit
<1> QED BY <1>3, <1>5, <1>6 DEF CollectionInv, ControlInv, Announces, OneSave

LEMMA CollectionSteps ==
    ASSUME CollectionInv, [DataCollectionNext]_dcVars
    PROVE  CollectionInv'
<1>1. CASE UNCHANGED dcVars
    BY <1>1 DEF dcVars, CollectionInv, WorldOK, ControlInv, ControlOK, Announces, OneSave, Saving, Staged
<1>2. CASE DataCollectionNext
    BY <1>2, StagingStep, AroundStep, HistoryStep, LeavingStep, OnSaveStep, ConfirmStep,
       CheckStaleStep, CheckAnsweredStep, CommitStep, RecoverStep
    DEF DataCollectionNext
<1> QED BY <1>1, <1>2

LEMMA CollectionHolds ==
    ASSUME CollectionInv
    PROVE  DeletionConfirmed
<1> SUFFICES ASSUME NEW c \in saves, Undisturbed(c), c.seen = dcServer, c.day = today
             PROVE  Deleted(dcServer, Patched(dcServer.set, BuildUpdates(c.saved, c.pending), c.pending))
                        \subseteq c.dialog
    BY DEF DeletionConfirmed
<1>1. Announced(c) /\ c.kind = "patch" /\ c.seen.set = c.saved
    BY DEF CollectionInv, Undisturbed
<1>2. Lost(c.day, c.seen, c.pending) \subseteq c.dialog
    BY <1>1 DEF Announced
<1>3. Deleted(dcServer, Patched(dcServer.set, BuildUpdates(c.saved, c.pending), c.pending))
          = Lost(c.day, c.seen, c.pending)
    BY <1>1 DEF Deleted, Lost, DeletedOn
<1> QED BY <1>2, <1>3

\* A save deletes nothing that its dialog did not announce, for any days that pass and any
\* changes by another tab while the changes are staged, checked and confirmed (the
\* control's save, which reads the profile again, and transitionFor).
THEOREM ConfirmedDeletion == DataCollectionSpec => []DeletionConfirmed
<1>1. DataCollectionInit => CollectionInv
    BY CollectionStart
<1>2. CollectionInv /\ [DataCollectionNext]_dcVars => CollectionInv'
    BY CollectionSteps
<1>3. CollectionInv => DeletionConfirmed
    BY CollectionHolds
<1> QED BY <1>1, <1>2, <1>3, PTL DEF DataCollectionSpec
-----------------------------------------------------------------------------
(* The statistics page *)

CountRecords == [stats : BOOLEAN, logs : BOOLEAN, retention : {1, 2},
                 onAt : Nat, deletedAt : Nat \cup {Null}, epoch : Nat]
Copies == [stats : BOOLEAN, logs : BOOLEAN, retention : {1, 2}]

ResFields == {"key", "scope", "status", "data", "refreshing"}
AskFields == {"kind", "key", "pid", "range", "silent", "old", "n"}
ViewFields == {"url", "remembered", "reload", "revalidated", "timer", "deps", "gate", "sheet",
               "tags", "rules", "gone"}

\* Counts that were read once: they say what was counted, and since when, as long as
\* counting was not started over.
Facts(cs, d) ==
    /\ d.pid \in StatProfiles /\ d.enabled \in BOOLEAN /\ d.epoch \in Nat /\ d.at \in Nat
    /\ d.onAt \in Nat \cup {Null} /\ d.deletedAt \in Nat \cup {Null}
    /\ d.enabled => (d.total <=> d.pid \in Busy /\ \E e \in CountedQuarters(d, d.range) : e < d.at)
    /\ d.epoch =< cs[d.pid].epoch
    /\ d.epoch = cs[d.pid].epoch =>
          /\ d.enabled = cs[d.pid].stats
          /\ d.enabled => d.onAt = cs[d.pid].onAt /\ d.deletedAt = cs[d.pid].deletedAt

\* A resource without data, or with data of its key's profile, and of its key's view
\* unless they are being refreshed.
ResOK(cs, k, r) ==
    /\ DOMAIN r = ResFields
    /\ r.status \in {"idle", "loading", "ready", "error"} /\ r.refreshing \in BOOLEAN
    /\ (r.status = "idle") <=> (r.key = Null)
    /\ r.status # "ready" => r.data = Null /\ ~r.refreshing
    /\ r.key # Null => r.scope = r.key[1]
    /\ r.status = "ready" =>
          /\ r.data.pid = r.scope
          /\ ~r.refreshing => r.data.range = r.key[2]
          /\ k = "stats" => Facts(cs, r.data)

\* A request asks for what its key names.
AskOK(cs, q) ==
    /\ DOMAIN q = AskFields /\ q.pid \in StatProfiles
    /\ q.kind \in Resources =>
          /\ q.key # Null /\ q.key[1] = q.pid /\ q.key[2] = q.range
          /\ q.old.pid = q.pid /\ q.old.range = q.range
          /\ q.kind = "stats" => Facts(cs, q.old) /\ q.old.at = clock

\* What is waited for was asked for.
Waits(k, r, pending) ==
    r.status = "loading" \/ r.refreshing => \E q \in pending : q.kind = k /\ q.key = r.key /\ ~q.silent

Due == FirstCountsDue(res, view, Settings)

\* The timer stands until its moment, which is the one the page waits for; once it is
\* gone, so is the moment.
TimerInv ==
    /\ view.timer \in Nat \cup {Null}
    /\ view.timer # Null => clock =< view.timer
    /\ view.deps = <<Due, shown, ShownRange>>
    /\ Due # Null => view.timer = Due.refetch \/ Due.refetch =< clock

\* Counts that were read before that moment are going to be read again.
RefetchInv ==
    stFaults = MaxStatFaults /\ Showing("stats") /\ Due # Null =>
        \/ res["stats"].data.at >= Due.refetch
        \/ view.timer = Due.refetch
        \/ \E q \in asks : q.kind = "stats" /\ q.key = res["stats"].key

StatTypes ==
    /\ counts \in [StatProfiles -> CountRecords] /\ stCopy \in [StatProfiles -> Copies]
    /\ shown \in StatProfiles /\ clock \in 0 .. MaxClock /\ stFaults \in 0 .. MaxStatFaults
    /\ DOMAIN view = ViewFields
    /\ DOMAIN res = Resources

ResInv ==
    \A k \in Resources :
        /\ ResOK(counts, k, res[k]) /\ res[k].key = KeyOf(k, view, shown, Settings)
        /\ Waits(k, res[k], asks)

StatInv ==
    /\ StatTypes /\ ResInv /\ TimerInv /\ RefetchInv
    /\ \A q \in asks : AskOK(counts, q)

-----------------------------------------------------------------------------
(* Answers, requests and effects *)

LEMMA SameQuarters ==
    ASSUME NEW c, NEW d, NEW v, c.onAt = d.onAt, c.deletedAt = d.deletedAt
    PROVE  CountedQuarters(c, v) = CountedQuarters(d, v)
BY DEF CountedQuarters

LEMMA AnswerFacts ==
    ASSUME NEW cs \in [StatProfiles -> CountRecords], NEW p \in StatProfiles, NEW v, clock \in Nat
    PROVE  /\ Facts(cs, Answer(cs, "stats", p, v)) /\ Answer(cs, "stats", p, v).at = clock
           /\ \A kind : Answer(cs, kind, p, v).pid = p /\ Answer(cs, kind, p, v).range = v
<1>1. PICK c \in CountRecords : c = cs[p]
    OBVIOUS
<1>2. PICK d : d = Answer(cs, "stats", p, v)
    OBVIOUS
<1>3. PICK total \in BOOLEAN :
          total = (c.stats /\ p \in Busy /\ \E e \in CountedQuarters(c, v) : e < clock)
    OBVIOUS
<1>4. d = [pid |-> p, range |-> v, enabled |-> c.stats, epoch |-> c.epoch, at |-> clock,
           onAt |-> IF c.stats THEN c.onAt ELSE Null,
           deletedAt |-> IF c.stats THEN c.deletedAt ELSE Null, total |-> total]
    BY <1>1, <1>2, <1>3 DEF Answer
<1>5. /\ d.pid = p /\ d.range = v /\ d.enabled = c.stats /\ d.epoch = c.epoch /\ d.at = clock
      /\ d.onAt = IF c.stats THEN c.onAt ELSE Null
      /\ d.deletedAt = IF c.stats THEN c.deletedAt ELSE Null
      /\ d.total = total
    BY <1>4
<1>6. /\ c.stats \in BOOLEAN /\ c.onAt \in Nat /\ c.deletedAt \in Nat \cup {Null} /\ c.epoch \in Nat
    BY DEF CountRecords
<1>7. ASSUME d.enabled
      PROVE  CountedQuarters(d, v) = CountedQuarters(c, v)
    BY <1>5, <1>7, SameQuarters
<1>8. d.enabled => (d.total <=> p \in Busy /\ \E e \in CountedQuarters(d, d.range) : e < d.at)
    BY <1>3, <1>5, <1>7
<1>9. Facts(cs, d)
    BY <1>1, <1>5, <1>6, <1>8 DEF Facts
<1>10. \A kind : Answer(cs, kind, p, v).pid = p /\ Answer(cs, kind, p, v).range = v
    BY DEF Answer
<1> QED BY <1>2, <1>5, <1>9, <1>10

LEMMA Asked ==
    ASSUME NEW cs, NEW pending, NEW kind, NEW key, NEW p, NEW v, NEW silent
    PROVE  \E q : /\ Ask(cs, pending, kind, key, p, v, silent) = pending \cup {q}
                  /\ DOMAIN q = AskFields
                  /\ q.kind = kind /\ q.key = key /\ q.pid = p /\ q.range = v
                  /\ q.silent = silent /\ q.old = Answer(cs, kind, p, v)
<1>1. PICK old : old = Answer(cs, kind, p, v)
    OBVIOUS
<1>2. PICK r : r = [kind |-> kind, key |-> key, pid |-> p, range |-> v, silent |-> silent,
                    old |-> old, n |-> 1]
    OBVIOUS
<1>3. PICK n : n = Min({m \in 1 .. 9 : [r EXCEPT !.n = m] \notin pending})
    OBVIOUS
<1>4. PICK q : q = [r EXCEPT !.n = n]
    OBVIOUS
<1>5. Fresh(pending, r) = q
    BY <1>3, <1>4 DEF Fresh
<1>6. Ask(cs, pending, kind, key, p, v, silent) = pending \cup {q}
    BY <1>1, <1>2, <1>5 DEF Ask
<1>7. /\ DOMAIN q = AskFields
      /\ q.kind = kind /\ q.key = key /\ q.pid = p /\ q.range = v
      /\ q.silent = silent /\ q.old = old
    BY <1>2, <1>4 DEF AskFields
<1> QED BY <1>1, <1>6, <1>7

LEMMA EffectOK ==
    ASSUME NEW cs, NEW k, NEW r, NEW key, NEW p, ResOK(cs, k, r), key # Null => key[1] = p
    PROVE  /\ ResOK(cs, k, Effect(r, key, p)) /\ Effect(r, key, p).key = key
           /\ Effect(r, key, p).status = "ready" => Effect(r, key, p).refreshing /\ r.status = "ready"
<1>1. CASE key = Null
    BY <1>1 DEF Effect, Idle, ResOK, ResFields
<1>2. CASE key # Null /\ r.scope = p /\ r.data # Null
  <2>1. r.status = "ready"
      BY <1>2 DEF ResOK
  <2>2. PICK e : e = [r EXCEPT !.key = key, !.refreshing = TRUE]
      OBVIOUS
  <2>3. /\ DOMAIN e = ResFields /\ e.key = key /\ e.refreshing = TRUE /\ e.status = "ready"
        /\ e.data = r.data /\ e.scope = p
      BY <1>2, <2>1, <2>2 DEF ResOK, ResFields
  <2>4. ResOK(cs, k, e)
      BY <1>2, <2>1, <2>3 DEF ResOK
  <2>5. Effect(r, key, p) = e
      BY <1>2, <2>2 DEF Effect
  <2> QED BY <2>1, <2>3, <2>4, <2>5
<1>3. CASE key # Null /\ ~(r.scope = p /\ r.data # Null)
  <2>1. PICK e : e = [NewLoad(r) EXCEPT !.key = key, !.scope = p]
      OBVIOUS
  <2>2. /\ DOMAIN e = ResFields /\ e.key = key /\ e.refreshing = FALSE /\ e.status = "loading"
        /\ e.data = Null /\ e.scope = p
      BY <2>1 DEF ResOK, ResFields, NewLoad
  <2>3. ResOK(cs, k, e)
      BY <1>3, <2>2 DEF ResOK
  <2>4. Effect(r, key, p) = e
      BY <1>3, <2>1 DEF Effect
  <2> QED BY <2>2, <2>3, <2>4
<1> QED BY <1>1, <1>2, <1>3

-----------------------------------------------------------------------------
(* A render *)

\* The parts of the page's state that its keys depend on.
SameView(v, w) == v.url = w.url /\ v.remembered = w.remembered /\ v.reload = w.reload

LEMMA KeyParts ==
    ASSUME NEW k \in Resources, NEW w, NEW p, NEW set, KeyOf(k, w, p, set) # Null
    PROVE  KeyOf(k, w, p, set)[1] = p /\ KeyOf(k, w, p, set)[2] = RangeOf(w, set)
BY DEF KeyOf, StatsKey, ListsKey

LEMMA KeyOfSame ==
    ASSUME NEW k, NEW v, NEW w, NEW p, NEW set, SameView(v, w)
    PROVE  KeyOf(k, v, p, set) = KeyOf(k, w, p, set) /\ RangeOf(v, set) = RangeOf(w, set)
BY DEF KeyOf, StatsKey, ListsKey, RangeOf, SameView

LEMMA DueSame ==
    ASSUME NEW rs, NEW v, NEW w, NEW set, SameView(v, w)
    PROVE  FirstCountsDue(rs, v, set) = FirstCountsDue(rs, w, set)
<1>1. RangeOf(v, set) = RangeOf(w, set)
    BY DEF RangeOf, SameView
<1> QED BY <1>1 DEF FirstCountsDue

\* The timer for a moment the page waits for.
RuleOf(c) == IF c # Null /\ clock < c.until /\ c.refetch > clock THEN c.refetch ELSE Null

\* What one render does to the timer.
TimerMoved(v, w, deps) ==
    /\ v.deps = deps
    /\ v.timer = IF deps = w.deps THEN w.timer ELSE RuleOf(deps[1])

\* The requests of a render.
AskedFor(cs, k, w, p, set, q) ==
    /\ DOMAIN q = AskFields /\ q.kind = k
    /\ q.key = KeyOf(k, w, p, set) /\ q.key # Null /\ q.pid = p /\ q.range = RangeOf(w, set)
    /\ q.silent = FALSE /\ q.old = Answer(cs, k, p, RangeOf(w, set))

NewAsks(cs, w, rs, pending, p, set, asked) ==
    /\ pending \subseteq asked
    /\ \A q \in asked \ pending :
          /\ DOMAIN q = AskFields
          /\ (q.kind = "profile" /\ q.pid = p) \/ \E k \in Resources : AskedFor(cs, k, w, p, set, q)
    /\ \A k \in Resources : KeyOf(k, w, p, set) \notin {rs[k].key, Null} =>
          \E q \in asked : AskedFor(cs, k, w, p, set, q)

Refreshing(w, rs, p, set) ==
    [k \in Resources |-> IF KeyOf(k, w, p, set) # rs[k].key THEN Effect(rs[k], KeyOf(k, w, p, set), p)
                         ELSE rs[k]]

LEMMA RoundParts ==
    ASSUME NEW cs, NEW a, NEW p, NEW set, NEW s, DOMAIN a.w = ViewFields,
           s = Round(cs, a, p, set)
    PROVE  /\ DOMAIN s.w = ViewFields /\ SameView(s.w, a.w) /\ s.w.gate = a.w.gate
           /\ TimerMoved(s.w, a.w, <<FirstCountsDue(a.rs, a.w, set), p, RangeOf(a.w, set)>>)
           /\ s.rs = Refreshing(a.w, a.rs, p, set)
           /\ NewAsks(cs, a.w, a.rs, a.asks, p, set, s.asks)
<1> DEFINE w == a.w
           rs == a.rs
           pending == a.asks
           v == RangeOf(w, set)
           key == [k \in Resources |-> KeyOf(k, w, p, set)]
           changed == {k \in Resources : key[k] # rs[k].key}
           sent == {k \in changed : key[k] # Null}
           off == ServerOff(rs, set) /\ w.revalidated # p
           u == [w EXCEPT !.revalidated = IF off THEN p ELSE @, !.sheet = @ /\ Collected(rs, set)]
           extra == IF off THEN Ask(cs, pending, "profile", Null, p, 1, FALSE) ELSE {}
           sentNow == UNION {Ask(cs, pending, k, key[k], p, v, FALSE) : k \in sent}
           next == [k \in Resources |-> IF k \in changed THEN Effect(rs[k], key[k], p) ELSE rs[k]]
<1>3. s = [w |-> TimerOf(u, rs, p, set), rs |-> next, asks |-> pending \cup sentNow \cup extra]
    BY Zenon DEF Round
<1>4. /\ s.w = TimerOf(u, rs, p, set)
      /\ s.rs = next
      /\ s.asks = pending \cup sentNow \cup extra
  <2> HIDE DEF u, next, sentNow, extra
  <2> QED BY <1>3
<1>5. /\ DOMAIN u = ViewFields /\ SameView(u, w) /\ u.deps = w.deps /\ u.timer = w.timer
      /\ u.gate = w.gate
    BY DEF ViewFields, SameView
<1>6. FirstCountsDue(rs, u, set) = FirstCountsDue(rs, w, set) /\ RangeOf(u, set) = v
    BY <1>5, DueSame, KeyOfSame
<1>7. /\ DOMAIN s.w = ViewFields /\ SameView(s.w, w) /\ s.w.gate = w.gate
      /\ TimerMoved(s.w, w, <<FirstCountsDue(rs, w, set), p, RangeOf(w, set)>>)
  <2>1. PICK c, deps : c = FirstCountsDue(rs, w, set) /\ deps = <<c, p, v>>
      OBVIOUS
  <2>2. PICK timer : timer = RuleOf(c)
      OBVIOUS
  <2>3. s.w = IF deps = u.deps THEN u ELSE [u EXCEPT !.deps = deps, !.timer = timer]
      BY <1>4, <1>6, <2>1, <2>2 DEF TimerOf, RuleOf
  <2>4. /\ DOMAIN s.w = ViewFields /\ SameView(s.w, w) /\ s.w.gate = w.gate
        /\ s.w.deps = deps /\ s.w.timer = IF deps = w.deps THEN w.timer ELSE timer
      BY <1>5, <2>3 DEF ViewFields, SameView
  <2>5. deps[1] = c
      BY <2>1
  <2> QED BY <2>1, <2>2, <2>4, <2>5 DEF TimerMoved
<1>8. s.rs = Refreshing(w, rs, p, set)
    BY <1>4, Zenon DEF Refreshing
<1>9. ASSUME NEW k \in Resources
      PROVE  /\ key[k] = KeyOf(k, w, p, set)
             /\ k \in sent <=> KeyOf(k, w, p, set) \notin {rs[k].key, Null}
    OBVIOUS
<1>10. ASSUME NEW k \in sent
       PROVE  \E q : /\ Ask(cs, pending, k, key[k], p, v, FALSE) = pending \cup {q}
                     /\ AskedFor(cs, k, w, p, set, q)
  <2> HIDE DEF v, sent, key
  <2>0. PICK no, name, range, before : no = FALSE /\ name = key[k] /\ range = v /\ before = pending
      OBVIOUS
  <2>1. PICK q : /\ Ask(cs, before, k, name, p, range, no) = before \cup {q}
                 /\ DOMAIN q = AskFields /\ q.kind = k /\ q.key = name /\ q.pid = p /\ q.range = range
                 /\ q.silent = no /\ q.old = Answer(cs, k, p, range)
      BY Asked
  <2>2. k \in Resources /\ key[k] = KeyOf(k, w, p, set) /\ key[k] # Null
      BY <1>9 DEF sent, changed
  <2>3. AskedFor(cs, k, w, p, set, q)
      BY <2>0, <2>1, <2>2 DEF AskedFor, v
  <2> QED BY <2>0, <2>1, <2>3
<1>11. \A q \in extra : q \in pending \/ (q.kind = "profile" /\ q.pid = p /\ DOMAIN q = AskFields)
  <2>1. CASE off
    <3>1. extra = Ask(cs, pending, "profile", Null, p, 1, FALSE)
        BY <2>1
    <3>2. PICK no, kind, before : no = FALSE /\ kind = "profile" /\ before = pending
        OBVIOUS
    <3>3. PICK q : /\ Ask(cs, before, kind, Null, p, 1, no) = before \cup {q}
                   /\ DOMAIN q = AskFields /\ q.kind = kind /\ q.pid = p
        BY Asked
    <3> QED BY <3>1, <3>2, <3>3
  <2>2. CASE ~off
      BY <2>2
  <2> QED BY <2>1, <2>2
<1> HIDE DEF key, changed, sent, v, u, extra, sentNow, next, w, rs, pending
<1>12. pending \subseteq s.asks
    BY <1>4
<1>13. ASSUME NEW q \in s.asks \ pending
       PROVE  DOMAIN q = AskFields /\ ((q.kind = "profile" /\ q.pid = p) \/ \E k \in Resources : AskedFor(cs, k, w, p, set, q))
  <2>1. CASE q \in extra
      BY <1>11, <1>13, <2>1
  <2>2. CASE q \in sentNow
    <3>1. PICK k \in sent : q \in Ask(cs, pending, k, key[k], p, v, FALSE)
        BY <2>2 DEF sentNow
    <3>2. PICK r : /\ Ask(cs, pending, k, key[k], p, v, FALSE) = pending \cup {r}
                   /\ AskedFor(cs, k, w, p, set, r)
        BY <1>10
    <3>3. q = r /\ k \in Resources
        BY <1>13, <3>1, <3>2 DEF sent, changed
    <3> QED BY <3>2, <3>3 DEF AskedFor
  <2> QED BY <1>4, <1>13, <2>1, <2>2
<1>14. ASSUME NEW k \in Resources, KeyOf(k, w, p, set) \notin {rs[k].key, Null}
       PROVE  \E q \in s.asks : AskedFor(cs, k, w, p, set, q)
  <2>1. k \in sent
      BY <1>9, <1>14
  <2>2. PICK r : /\ Ask(cs, pending, k, key[k], p, v, FALSE) = pending \cup {r}
                 /\ AskedFor(cs, k, w, p, set, r)
      BY <1>10, <2>1
  <2>3. r \in sentNow
      BY <2>1, <2>2 DEF sentNow
  <2>4. r \in s.asks
      BY <1>4, <2>3
  <2> QED BY <2>2, <2>4
<1>15. NewAsks(cs, w, rs, pending, p, set, s.asks)
    BY <1>12, <1>13, <1>14 DEF NewAsks
<1> QED BY <1>7, <1>8, <1>15 DEF w, rs, pending

LEMMA AskedForOK ==
    ASSUME NEW cs \in [StatProfiles -> CountRecords], NEW p \in StatProfiles, clock \in Nat,
           NEW k \in Resources, NEW w, NEW set, NEW q, AskedFor(cs, k, w, p, set, q)
    PROVE  AskOK(cs, q)
<1>1. PICK v : v = RangeOf(w, set)
    OBVIOUS
<1>2. /\ DOMAIN q = AskFields /\ q.kind = k /\ q.key = KeyOf(k, w, p, set) /\ q.key # Null
      /\ q.pid = p /\ q.range = v /\ q.old = Answer(cs, k, p, v)
    BY <1>1 DEF AskedFor
<1>3. q.key[1] = p /\ q.key[2] = v
    BY <1>1, <1>2, KeyParts
<1>4. q.old.pid = p /\ q.old.range = v
    BY <1>2, AnswerFacts
<1>5. k = "stats" => Facts(cs, q.old) /\ q.old.at = clock
    BY <1>2, AnswerFacts
<1> QED BY <1>2, <1>3, <1>4, <1>5 DEF AskOK

LEMMA NewAsksOK ==
    ASSUME NEW cs \in [StatProfiles -> CountRecords], NEW p \in StatProfiles, clock \in Nat,
           NEW w, NEW rs, NEW pending, NEW set, NEW asked,
           NewAsks(cs, w, rs, pending, p, set, asked), \A q \in pending : AskOK(cs, q)
    PROVE  \A q \in asked : AskOK(cs, q)
<1> SUFFICES ASSUME NEW q \in asked, q \notin pending
             PROVE  AskOK(cs, q)
    OBVIOUS
<1>1. DOMAIN q = AskFields /\ ((q.kind = "profile" /\ q.pid = p) \/ \E k \in Resources : AskedFor(cs, k, w, p, set, q))
    BY DEF NewAsks
<1>2. CASE q.kind = "profile" /\ q.pid = p
    BY <1>1, <1>2 DEF AskOK, Resources
<1>3. CASE \E k \in Resources : AskedFor(cs, k, w, p, set, q)
    BY <1>3, AskedForOK
<1> QED BY <1>1, <1>2, <1>3

\* What a resource shows does not change unless it is asked for again.
Kept(r, q) == q = r \/ (q.status = "ready" => q.refreshing /\ r.status = "ready")

LEMMA RoundOnce ==
    ASSUME NEW cs, NEW w, NEW rs, NEW pending, NEW p, NEW set, NEW next, NEW asked,
           DOMAIN rs = Resources, \A k \in Resources : ResOK(cs, k, rs[k]),
           next = Refreshing(w, rs, p, set), NewAsks(cs, w, rs, pending, p, set, asked)
    PROVE  /\ DOMAIN next = Resources
           /\ \A k \in Resources :
                 /\ ResOK(cs, k, next[k]) /\ next[k].key = KeyOf(k, w, p, set)
                 /\ Kept(rs[k], next[k])
                 /\ rs[k].key = KeyOf(k, w, p, set) => next[k] = rs[k]
                 /\ Waits(k, rs[k], pending) => Waits(k, next[k], asked)
<1>1. DOMAIN next = Resources
    BY DEF Refreshing
<1>2. ASSUME NEW k \in Resources
      PROVE  /\ ResOK(cs, k, next[k]) /\ next[k].key = KeyOf(k, w, p, set)
             /\ Kept(rs[k], next[k])
             /\ rs[k].key = KeyOf(k, w, p, set) => next[k] = rs[k]
             /\ Waits(k, rs[k], pending) => Waits(k, next[k], asked)
  <2>1. PICK key : key = KeyOf(k, w, p, set)
      OBVIOUS
  <2>2. next[k] = IF key # rs[k].key THEN Effect(rs[k], key, p) ELSE rs[k]
      BY <2>1 DEF Refreshing
  <2>3. pending \subseteq asked
      BY DEF NewAsks
  <2>4. CASE key = rs[k].key
    <3>1. next[k] = rs[k]
        BY <2>2, <2>4
    <3> QED BY <2>1, <2>3, <2>4, <3>1 DEF Waits, Kept
  <2>5. CASE key # rs[k].key
    <3>1. key # Null => key[1] = p
        BY <2>1, KeyParts
    <3>2. PICK e : e = Effect(rs[k], key, p)
        OBVIOUS
    <3>3. ResOK(cs, k, rs[k])
        OBVIOUS
    <3>4. /\ ResOK(cs, k, Effect(rs[k], key, p)) /\ Effect(rs[k], key, p).key = key
          /\ Effect(rs[k], key, p).status = "ready"
                => Effect(rs[k], key, p).refreshing /\ rs[k].status = "ready"
        BY <3>1, <3>3, EffectOK
    <3>5. next[k] = e /\ ResOK(cs, k, e) /\ e.key = key /\ Kept(rs[k], e)
        BY <2>2, <2>5, <3>2, <3>4 DEF Kept
    <3>6. Waits(k, e, asked)
      <4>1. CASE key = Null
          BY <3>5, <4>1 DEF ResOK, Waits
      <4>2. CASE key # Null
        <5>1. PICK q \in asked : AskedFor(cs, k, w, p, set, q)
            BY <2>1, <2>5, <4>2 DEF NewAsks
        <5>2. q.kind = k /\ q.key = key /\ q.silent = FALSE
            BY <2>1, <5>1 DEF AskedFor
        <5> QED BY <3>5, <5>2 DEF Waits
      <4> QED BY <4>1, <4>2
    <3> QED BY <2>1, <2>5, <3>5, <3>6
  <2> QED BY <2>4, <2>5
<1> QED BY <1>1, <1>2

DepsOf(rs, w, p, set) == <<FirstCountsDue(rs, w, set), p, RangeOf(w, set)>>

\* What holds of the page after a change, whatever it was.
LEMMA RenderParts ==
    ASSUME NEW cs \in [StatProfiles -> CountRecords], NEW p \in StatProfiles, clock \in Nat,
           NEW w, NEW rs, NEW pending, NEW set, NEW s, DOMAIN w = ViewFields,
           DOMAIN rs = Resources,
           \A k \in Resources : ResOK(cs, k, rs[k]) /\ Waits(k, rs[k], pending),
           \A q \in pending : AskOK(cs, q),
           s = AfterRender(cs, w, rs, pending, p, set)
    PROVE  /\ DOMAIN s.w = ViewFields /\ DOMAIN s.rs = Resources
           /\ pending \subseteq s.asks /\ \A q \in s.asks : AskOK(cs, q)
           /\ \A k \in Resources :
                 /\ ResOK(cs, k, s.rs[k]) /\ s.rs[k].key = KeyOf(k, s.w, p, set)
                 /\ Waits(k, s.rs[k], s.asks) /\ Kept(rs[k], s.rs[k])
           /\ s.w.deps = DepsOf(s.rs, s.w, p, set)
           /\ \/ s.w.timer = RuleOf(FirstCountsDue(s.rs, s.w, set))
              \/ s.w.deps = w.deps /\ s.w.timer = w.timer
           /\ s.rs["stats"] = rs["stats"] /\ s.w.deps = w.deps => s.w.timer = w.timer
<1>1. PICK u : u = Corrected(w, set)
    OBVIOUS
<1>2. DOMAIN u = ViewFields /\ u.deps = w.deps /\ u.timer = w.timer
    BY <1>1 DEF Corrected, SetRange, ViewFields
<1>3. PICK a : a = [w |-> u, rs |-> rs, asks |-> pending]
    OBVIOUS
<1>4. a.w = u /\ a.rs = rs /\ a.asks = pending
    BY <1>3
<1>5. PICK b : b = Round(cs, a, p, set)
    OBVIOUS
<1>6. s = Round(cs, b, p, set)
    BY <1>1, <1>3, <1>5 DEF AfterRender
<1>7. /\ DOMAIN b.w = ViewFields /\ SameView(b.w, u)
      /\ TimerMoved(b.w, u, DepsOf(rs, u, p, set))
      /\ b.rs = Refreshing(u, rs, p, set)
      /\ NewAsks(cs, u, rs, pending, p, set, b.asks)
  <2>1. DOMAIN a.w = ViewFields
      BY <1>2, <1>4
  <2> QED BY <1>4, <1>5, <2>1, RoundParts DEF DepsOf
<1>8. /\ DOMAIN s.w = ViewFields /\ SameView(s.w, b.w)
      /\ TimerMoved(s.w, b.w, DepsOf(b.rs, b.w, p, set))
      /\ s.rs = Refreshing(b.w, b.rs, p, set)
      /\ NewAsks(cs, b.w, b.rs, b.asks, p, set, s.asks)
    BY <1>6, <1>7, RoundParts DEF DepsOf
<1>9. PICK next : next = b.rs
    OBVIOUS
<1>10. /\ DOMAIN next = Resources
       /\ \A k \in Resources :
             /\ ResOK(cs, k, next[k]) /\ next[k].key = KeyOf(k, u, p, set)
             /\ Kept(rs[k], next[k]) /\ Waits(k, next[k], b.asks)
             /\ rs[k].key = KeyOf(k, u, p, set) => next[k] = rs[k]
    BY <1>7, <1>9, RoundOnce
<1>11. \A k \in Resources : KeyOf(k, b.w, p, set) = KeyOf(k, u, p, set)
    BY <1>7, KeyOfSame
<1>12. /\ DOMAIN s.rs = Resources
       /\ \A k \in Resources :
             /\ s.rs[k] = next[k]
             /\ Waits(k, s.rs[k], s.asks)
    BY <1>8, <1>9, <1>10, <1>11, RoundOnce
<1>13. s.rs = next
  <2>1. s.rs = [k \in Resources |-> s.rs[k]]
      BY <1>8 DEF Refreshing
  <2>2. next = [k \in Resources |-> next[k]]
      BY <1>7, <1>9 DEF Refreshing
  <2> QED BY <1>12, <2>1, <2>2
<1>14. \A k \in Resources : KeyOf(k, s.w, p, set) = KeyOf(k, u, p, set)
    BY <1>8, <1>11, KeyOfSame
<1>15. pending \subseteq s.asks /\ \A q \in s.asks : AskOK(cs, q)
  <2>1. \A q \in b.asks : AskOK(cs, q)
      BY <1>7, NewAsksOK
  <2>2. \A q \in s.asks : AskOK(cs, q)
      BY <1>8, <2>1, NewAsksOK
  <2> QED BY <1>7, <1>8, <2>2 DEF NewAsks
<1>16. /\ DepsOf(next, b.w, p, set) = DepsOf(s.rs, s.w, p, set)
       /\ DepsOf(next, u, p, set) = DepsOf(s.rs, s.w, p, set)
    BY <1>7, <1>8, <1>13, DueSame, KeyOfSame DEF DepsOf
<1>17. PICK before, after : before = DepsOf(rs, u, p, set) /\ after = DepsOf(s.rs, s.w, p, set)
    OBVIOUS
<1>18. /\ b.w.deps = before /\ b.w.timer = IF before = w.deps THEN w.timer ELSE RuleOf(before[1])
       /\ s.w.deps = after /\ s.w.timer = IF after = b.w.deps THEN b.w.timer ELSE RuleOf(after[1])
    BY <1>2, <1>7, <1>8, <1>9, <1>16, <1>17 DEF TimerMoved
<1>19. after[1] = FirstCountsDue(s.rs, s.w, set)
    BY <1>17 DEF DepsOf
<1>20. s.w.timer = RuleOf(after[1]) \/ (s.w.deps = w.deps /\ s.w.timer = w.timer)
    BY <1>18
<1>21. s.rs["stats"] = rs["stats"] => before = after
  <2>1. ASSUME s.rs["stats"] = rs["stats"]
        PROVE  FirstCountsDue(rs, u, set) = FirstCountsDue(next, u, set)
      BY <1>13, <2>1 DEF FirstCountsDue
  <2> QED BY <1>16, <1>17, <2>1 DEF DepsOf
<1> QED BY <1>8, <1>10, <1>12, <1>13, <1>14, <1>15, <1>17, <1>18, <1>19, <1>20, <1>21

-----------------------------------------------------------------------------
(* When the first counts are due *)

LEMMA MaxOfTwo ==
    ASSUME NEW a \in Int, NEW b \in Int
    PROVE  Max({a, b}) = IF a >= b THEN a ELSE b
<1>1. Max({a, b}) = CHOOSE x \in {a, b} : \A y \in {a, b} : x >= y
    BY DEF Max
<1>2. \E x \in {a, b} : \A y \in {a, b} : x >= y
    BY SMT
<1>3. Max({a, b}) \in {a, b} /\ \A y \in {a, b} : Max({a, b}) >= y
    BY <1>1, <1>2
<1> QED BY <1>3, SMT

LEMMA LatestIn ==
    ASSUME NEW a \in Nat \cup {Null}, NEW b \in Nat \cup {Null}, Latest(a, b) # Null
    PROVE  Latest(a, b) \in Nat /\ (b # Null => b \in Nat /\ b =< Latest(a, b))
<1>1. CASE a = Null
    BY <1>1 DEF Latest
<1>2. CASE a # Null /\ b = Null
    BY <1>2 DEF Latest
<1>3. CASE a # Null /\ b # Null
    BY <1>3, MaxOfTwo DEF Latest
<1> QED BY <1>1, <1>2, <1>3

\* The first bucket of a view closes after counting started, and holds a quarter of its own.
LEMMA FirstBucket ==
    ASSUME NEW v, NEW onAt \in Nat \cup {Null}, NEW deletedAt \in Nat \cup {Null},
           ExpectedFirstCounts(v, onAt, deletedAt) # Null
    PROVE  LET b == ExpectedFirstCounts(v, onAt, deletedAt) IN
           /\ b \in Nat /\ b > 0 /\ b % Quarter = 0 /\ b > Latest(onAt, deletedAt)
           /\ v # 1 /\ deletedAt # Null => (b - Quarter) \div Coarse > deletedAt \div Coarse
<1>1. PICK start, b : start = Latest(onAt, deletedAt) /\ b = ExpectedFirstCounts(v, onAt, deletedAt)
    OBVIOUS
<1>2. start # Null
    BY <1>1 DEF ExpectedFirstCounts
<1>3. start \in Nat
    BY <1>1, <1>2, LatestIn
<1>4. PICK boundary \in Nat : boundary = (start \div 2) * 2 + 2
    BY <1>3
<1>5. boundary % 2 = 0 /\ boundary > start
    BY <1>3, <1>4
<1>6. b = IF deletedAt = Null \/ v = 1 THEN boundary
          ELSE Max({boundary, (deletedAt \div 4) * 4 + 4 + 2})
    BY <1>1, <1>2, <1>4 DEF ExpectedFirstCounts, Quarter, Coarse
<1>7. CASE deletedAt = Null \/ v = 1
    BY <1>1, <1>3, <1>5, <1>6, <1>7 DEF Quarter
<1>8. CASE deletedAt # Null /\ v # 1
  <2>1. deletedAt \in Nat
      BY <1>8
  <2>2. PICK whole \in Nat : whole = deletedAt \div 4
      BY <2>1
  <2>3. PICK coarse \in Nat : coarse = whole * 4 + 6
      BY <2>2
  <2>4. b = IF boundary >= coarse THEN boundary ELSE coarse
    <3>1. coarse = (deletedAt \div 4) * 4 + 4 + 2
        BY <2>2, <2>3
    <3> QED BY <1>6, <1>8, <3>1, MaxOfTwo
  <2>5. coarse % 2 = 0
      BY <2>2, <2>3
  <2>6. b \in Nat /\ b > 0 /\ b % 2 = 0 /\ b > start /\ b >= coarse
      BY <1>3, <1>5, <2>4, <2>5
  <2>7. (b - 2) \div 4 > whole
      BY <2>2, <2>3, <2>6
  <2> QED BY <1>1, <2>2, <2>6, <2>7 DEF Quarter, Coarse
<1> QED BY <1>7, <1>8

LEMMA DueParts ==
    ASSUME NEW cs, NEW rs, NEW w, NEW set, Facts(cs, rs["stats"].data) \/ rs["stats"].status # "ready",
           FirstCountsDue(rs, w, set) # Null
    PROVE  LET d == rs["stats"].data
               b == ExpectedFirstCounts(RangeOf(w, set), d.onAt, d.deletedAt)
           IN /\ b # Null /\ b \in Nat /\ rs["stats"].status = "ready"
              /\ CountsState(d) = "no-queries-yet"
              /\ FirstCountsDue(rs, w, set).refetch = b + 2
              /\ FirstCountsDue(rs, w, set).until = b + 3
<1>1. PICK d, b : d = rs["stats"].data /\ b = ExpectedFirstCounts(RangeOf(w, set), d.onAt, d.deletedAt)
    OBVIOUS
<1>2. FirstCountsDue(rs, w, set) =
          IF rs["stats"].status # "ready" \/ CountsState(d) # "no-queries-yet" \/ b = Null THEN Null
          ELSE [refetch |-> b + 2, until |-> b + 3]
    BY <1>1 DEF FirstCountsDue, RefetchDelay, CollectingGrace
<1>3. rs["stats"].status = "ready" /\ CountsState(d) = "no-queries-yet" /\ b # Null
    BY <1>2
<1>4. d.onAt \in Nat \cup {Null} /\ d.deletedAt \in Nat \cup {Null}
    BY <1>1, <1>3 DEF Facts
<1>5. b \in Nat
    BY <1>1, <1>3, <1>4, FirstBucket
<1>6. /\ FirstCountsDue(rs, w, set).refetch = b + 2
      /\ FirstCountsDue(rs, w, set).until = b + 3
    BY <1>2, <1>3
<1> QED BY <1>1, <1>3, <1>5, <1>6

-----------------------------------------------------------------------------
(* A change of the page keeps the invariant *)

\* The page goes on from its state, or is a new one.
Continues(w, rs) ==
    \/ w.deps = view.deps /\ w.timer = view.timer
    \/ rs["stats"] = Idle /\ w.timer = Null

\* The counts are those the page had, with their requests, or new ones.
CountsSettled(rs, pending) ==
    \/ stFaults' # MaxStatFaults
    \/ rs["stats"].status = "ready" => rs["stats"].data.at = clock
    \/ /\ stFaults' = stFaults /\ rs["stats"] = res["stats"]
       /\ \A q \in asks : q.kind = "stats" /\ q.key = res["stats"].key => q \in pending

\* What a page is made from.
Ready(cs, w, rs, pending) ==
    /\ DOMAIN w = ViewFields /\ DOMAIN rs = Resources
    /\ \A k \in Resources : ResOK(cs, k, rs[k]) /\ Waits(k, rs[k], pending)
    /\ \A q \in pending : AskOK(cs, q)

LEMMA RenderKeeps ==
    ASSUME StatInv, NEW cs \in [StatProfiles -> CountRecords], NEW w, NEW rs, NEW pending,
           NEW p \in StatProfiles, NEW copies \in [StatProfiles -> Copies],
           Rendered(cs, w, rs, pending, p, copies), counts' = cs, clock' = clock,
           stFaults' \in 0 .. MaxStatFaults,
           Ready(cs, w, rs, pending), Continues(w, rs), CountsSettled(rs, pending)
    PROVE  StatInv'
<1>1. PICK u, set : u = [w EXCEPT !.sheet = @ /\ p = shown] /\ set = copies[p]
    OBVIOUS
<1>2. DOMAIN u = ViewFields /\ u.deps = w.deps /\ u.timer = w.timer
    BY <1>1 DEF Ready, ViewFields
<1>3. PICK s : s = AfterRender(cs, u, rs, pending, p, set)
    OBVIOUS
<1>4. view' = s.w /\ res' = s.rs /\ asks' = s.asks /\ shown' = p /\ stCopy' = copies
    BY <1>1, <1>3 DEF Rendered
<1>5. PICK t : t = clock
    OBVIOUS
<1>6. t \in Nat /\ clock \in Nat /\ clock \in 0 .. MaxClock
  <2>1. MaxClock \in Nat
      BY StatisticsAssumption
  <2> QED BY <1>5, <2>1 DEF StatInv, StatTypes
<1>7. /\ DOMAIN s.w = ViewFields /\ DOMAIN s.rs = Resources
      /\ pending \subseteq s.asks /\ \A q \in s.asks : AskOK(cs, q)
      /\ \A k \in Resources :
            /\ ResOK(cs, k, s.rs[k]) /\ s.rs[k].key = KeyOf(k, s.w, p, set)
            /\ Waits(k, s.rs[k], s.asks) /\ Kept(rs[k], s.rs[k])
      /\ s.w.deps = DepsOf(s.rs, s.w, p, set)
      /\ \/ s.w.timer = RuleOf(FirstCountsDue(s.rs, s.w, set))
         \/ s.w.deps = u.deps /\ s.w.timer = u.timer
      /\ s.rs["stats"] = rs["stats"] /\ s.w.deps = u.deps => s.w.timer = u.timer
  <2>1. /\ DOMAIN rs = Resources /\ \A k \in Resources : ResOK(cs, k, rs[k]) /\ Waits(k, rs[k], pending)
        /\ \A q \in pending : AskOK(cs, q)
      BY DEF Ready
  <2> QED BY <1>2, <1>3, <1>6, <2>1, RenderParts
<1>8. PICK due, old, v0 : /\ due = FirstCountsDue(s.rs, s.w, set) /\ old = Due
                         /\ v0 = view
    OBVIOUS
<1>9. /\ Settings' = set /\ Due' = due /\ ShownRange' = RangeOf(s.w, set)
  <2>1. Settings' = set
      BY <1>1, <1>4 DEF Settings
  <2> QED BY <1>4, <1>8, <2>1 DEF Due, ShownRange
<1>10. StatTypes'
    BY <1>4, <1>6, <1>7 DEF StatTypes
<1>11. \A q \in asks' : AskOK(counts, q)'
    BY <1>4, <1>7 DEF AskOK
<1>12. ResInv'
    BY <1>4, <1>7, <1>9 DEF ResInv
<1>13. Facts(cs, s.rs["stats"].data) \/ s.rs["stats"].status # "ready"
    BY <1>7 DEF ResOK, Resources
<1>14. due # Null => /\ due.refetch \in Nat /\ due.until = due.refetch + 1
                     /\ s.rs["stats"].status = "ready"
  <2>1. due # Null =>
           LET d == s.rs["stats"].data
               b == ExpectedFirstCounts(RangeOf(s.w, set), d.onAt, d.deletedAt)
           IN /\ b # Null /\ b \in Nat /\ s.rs["stats"].status = "ready"
              /\ due.refetch = b + 2 /\ due.until = b + 3
      BY <1>8, <1>13, DueParts
  <2> QED BY <2>1
<1>15. /\ v0.timer \in Nat \cup {Null} /\ (v0.timer # Null => t =< v0.timer)
       /\ v0.deps = <<old, shown, ShownRange>>
       /\ old # Null => v0.timer = old.refetch \/ old.refetch =< t
    BY <1>5, <1>8 DEF StatInv, TimerInv
<1>16. s.w.deps = <<due, p, RangeOf(s.w, set)>>
    BY <1>7, <1>8 DEF DepsOf
<1>17. \/ s.w.timer = IF due # Null /\ t < due.until /\ due.refetch > t THEN due.refetch ELSE Null
       \/ s.w.deps = u.deps /\ s.w.timer = u.timer
    BY <1>5, <1>7, <1>8 DEF RuleOf
<1>18. \/ u.deps = v0.deps /\ u.timer = v0.timer
       \/ rs["stats"] = Idle /\ u.timer = Null
    BY <1>2, <1>8 DEF Continues
<1>19. rs["stats"] = Idle => due = Null
  <2>1. ASSUME rs["stats"] = Idle
        PROVE  s.rs["stats"].status # "ready"
    <3>1. Kept(rs["stats"], s.rs["stats"])
        BY <1>7 DEF Resources
    <3> QED BY <2>1, <3>1 DEF Kept, Idle
  <2> QED BY <1>14, <2>1
<1>20. /\ s.w.timer \in Nat \cup {Null} /\ (s.w.timer # Null => t =< s.w.timer)
       /\ due # Null => s.w.timer = due.refetch \/ due.refetch =< t
  <2>1. CASE s.w.timer = IF due # Null /\ t < due.until /\ due.refetch > t THEN due.refetch ELSE Null
      BY <1>6, <1>14, <2>1
  <2>2. CASE s.w.deps = u.deps /\ s.w.timer = u.timer
    <3>1. CASE u.deps = v0.deps /\ u.timer = v0.timer
      <4>1. due = old
          BY <1>15, <1>16, <2>2, <3>1
      <4> QED BY <1>15, <2>2, <3>1, <4>1
    <3>2. CASE rs["stats"] = Idle /\ u.timer = Null
        BY <1>19, <2>2, <3>2
    <3> QED BY <1>18, <3>1, <3>2
  <2> QED BY <1>17, <2>1, <2>2
<1>21. TimerInv'
  <2>1. view'.timer = s.w.timer /\ clock' = t /\ view'.deps = <<Due, shown, ShownRange>>'
      BY <1>4, <1>5, <1>9, <1>16
  <2> QED BY <1>9, <1>20, <2>1 DEF TimerInv
<1>22. ASSUME stFaults' = MaxStatFaults, s.rs["stats"].status = "ready", ~s.rs["stats"].refreshing,
              due # Null
       PROVE  \/ s.rs["stats"].data.at >= due.refetch
              \/ s.w.timer = due.refetch
              \/ \E q \in s.asks : q.kind = "stats" /\ q.key = s.rs["stats"].key
  <2>1. PICK r : r = s.rs["stats"]
      OBVIOUS
  <2>2. rs["stats"] = r
      BY <1>7, <1>22, <2>1 DEF Kept, Resources
  <2>3. CASE r.data.at = clock
      BY <1>5, <1>6, <1>14, <1>20, <1>22, <2>1, <2>3
  <2>4. CASE /\ stFaults' = stFaults /\ r = res["stats"]
             /\ \A q \in asks : q.kind = "stats" /\ q.key = res["stats"].key => q \in pending
    <3>1. r.key # Null /\ r.key = KeyOf("stats", s.w, p, set)
        BY <1>7, <1>22, <2>1 DEF ResOK, Resources
    <3>2. r.key = KeyOf("stats", view, shown, Settings)
        BY <2>4 DEF StatInv, ResInv, Resources
    <3>3. "stats" \in Resources
        BY DEF Resources
    <3>4. r.key[1] = p /\ r.key[2] = RangeOf(s.w, set)
        BY <3>1, <3>3, KeyParts
    <3>5. r.key[1] = shown /\ r.key[2] = ShownRange
        BY <3>1, <3>2, <3>3, KeyParts DEF ShownRange
    <3>6. old = due
        BY <1>8, <2>1, <2>4, <3>4, <3>5 DEF Due, FirstCountsDue, ShownRange
    <3>7. s.w.deps = v0.deps
        BY <1>15, <1>16, <3>4, <3>5, <3>6
    <3>8. u.deps = v0.deps /\ u.timer = v0.timer
      <4>1. rs["stats"] # Idle
          BY <1>22, <2>1, <2>2 DEF Idle
      <4> QED BY <1>18, <4>1
    <3>9. s.w.timer = v0.timer
        BY <1>7, <2>1, <2>2, <3>7, <3>8
    <3>10. \/ r.data.at >= old.refetch
           \/ v0.timer = old.refetch
           \/ \E q \in asks : q.kind = "stats" /\ q.key = r.key
        BY <1>8, <1>22, <2>1, <2>4, <3>6 DEF StatInv, RefetchInv, Showing
    <3> QED BY <1>7, <2>1, <2>4, <3>6, <3>9, <3>10
  <2> QED BY <1>22, <2>1, <2>2, <2>3, <2>4 DEF CountsSettled
<1>23. RefetchInv'
    BY <1>4, <1>9, <1>22 DEF RefetchInv, Showing
<1> QED BY <1>10, <1>11, <1>12, <1>21, <1>23 DEF StatInv

-----------------------------------------------------------------------------
(* The server's counts go on *)

\* What was read of the old counts is still true of the new ones.
Grown(cs) == cs \in [StatProfiles -> CountRecords] /\ \A d : Facts(counts, d) => Facts(cs, d)

LEMMA GrownKeeps ==
    ASSUME NEW cs, Grown(cs)
    PROVE  /\ \A k, r : ResOK(counts, k, r) => ResOK(cs, k, r)
           /\ \A q : AskOK(counts, q) => AskOK(cs, q)
<1>1. ASSUME NEW k, NEW r, ResOK(counts, k, r)
      PROVE  ResOK(cs, k, r)
    BY <1>1 DEF ResOK, Grown
<1>2. ASSUME NEW q, AskOK(counts, q)
      PROVE  AskOK(cs, q)
    BY <1>2 DEF AskOK, Grown
<1> QED BY <1>1, <1>2

LEMMA SameGrown ==
    ASSUME StatInv
    PROVE  Grown(counts)
BY DEF Grown, StatInv, StatTypes

\* One profile's counts change, and if they are started over, then under a new number.
LEMMA GrownBy ==
    ASSUME StatInv, NEW p, NEW c \in CountRecords,
           p \in StatProfiles =>
               \/ c.epoch > counts[p].epoch
               \/ /\ c.epoch = counts[p].epoch /\ c.stats = counts[p].stats
                  /\ c.onAt = counts[p].onAt /\ c.deletedAt = counts[p].deletedAt
    PROVE  Grown([counts EXCEPT ![p] = c])
<1>1. PICK before \in [StatProfiles -> CountRecords] : before = counts
    BY DEF StatInv, StatTypes
<1>2. PICK after : after = [before EXCEPT ![p] = c]
    OBVIOUS
<1>3. after \in [StatProfiles -> CountRecords]
    BY <1>2
<1>4. ASSUME NEW d, Facts(before, d)
      PROVE  Facts(after, d)
  <2>1. d.pid \in StatProfiles /\ d.epoch \in Nat
      BY <1>4 DEF Facts
  <2>2. CASE d.pid # p
    <3>1. after[d.pid] = before[d.pid]
        BY <1>2, <2>1, <2>2
    <3> QED BY <1>4, <3>1 DEF Facts
  <2>3. CASE d.pid = p
    <3>1. after[d.pid] = c
        BY <1>2, <2>1, <2>3
    <3>2. PICK e \in CountRecords : e = before[d.pid]
        BY <2>1
    <3>3. e.epoch \in Nat /\ c.epoch \in Nat
        BY DEF CountRecords
    <3>4. d.epoch =< e.epoch
        BY <1>4, <3>2 DEF Facts
    <3>5. CASE c.epoch > e.epoch
        BY <1>4, <2>1, <3>1, <3>2, <3>3, <3>4, <3>5 DEF Facts
    <3>6. CASE c.epoch = e.epoch /\ c.stats = e.stats /\ c.onAt = e.onAt /\ c.deletedAt = e.deletedAt
        BY <1>4, <3>1, <3>2, <3>6 DEF Facts
    <3> QED BY <1>1, <2>1, <2>3, <3>2, <3>5, <3>6
  <2> QED BY <2>2, <2>3
<1> QED BY <1>1, <1>2, <1>3, <1>4 DEF Grown

LEMMA RecountedGrows ==
    ASSUME StatInv, NEW p, NEW set \in Copies
    PROVE  Grown([counts EXCEPT ![p] = Recounted(@, set)])
<1>1. CASE p \in StatProfiles
  <2>1. PICK c \in CountRecords : c = counts[p]
      BY <1>1 DEF StatInv, StatTypes
  <2>2. PICK t \in Nat : t = clock
      BY DEF StatInv, StatTypes
  <2>3. /\ c.stats \in BOOLEAN /\ c.epoch \in Nat /\ c.onAt \in Nat /\ c.deletedAt \in Nat \cup {Null}
        /\ set.stats \in BOOLEAN /\ set.logs \in BOOLEAN /\ set.retention \in {1, 2}
      BY DEF CountRecords, Copies
  <2>4. PICK r : r = Recounted(c, set)
      OBVIOUS
  <2>5. r = [stats |-> set.stats, logs |-> set.logs, retention |-> set.retention,
             onAt |-> IF set.stats /\ ~c.stats THEN t ELSE c.onAt, deletedAt |-> c.deletedAt,
             epoch |-> IF set.stats = c.stats THEN c.epoch ELSE c.epoch + 1]
      BY <2>2, <2>4 DEF Recounted, CountRecords
  <2>6. /\ r.stats = set.stats /\ r.logs = set.logs /\ r.retention = set.retention
        /\ r.onAt = IF set.stats /\ ~c.stats THEN t ELSE c.onAt
        /\ r.deletedAt = c.deletedAt
        /\ r.epoch = IF set.stats = c.stats THEN c.epoch ELSE c.epoch + 1
      BY <2>5
  <2>7. r \in CountRecords
      BY <2>2, <2>3, <2>5 DEF CountRecords
  <2>8. \/ r.epoch > c.epoch
        \/ r.epoch = c.epoch /\ r.stats = c.stats /\ r.onAt = c.onAt /\ r.deletedAt = c.deletedAt
      BY <2>3, <2>6
  <2>9. Grown([counts EXCEPT ![p] = r])
      BY <2>1, <2>7, <2>8, GrownBy
  <2> QED BY <2>1, <2>4, <2>9
<1>2. CASE p \notin StatProfiles
  <2>1. counts \in [StatProfiles -> CountRecords]
      BY DEF StatInv, StatTypes
  <2>2. [counts EXCEPT ![p] = Recounted(@, set)] = counts
      BY <1>2, <2>1
  <2> QED BY <2>2, SameGrown
<1> QED BY <1>1, <1>2

LEMMA SettingsTyped ==
    ASSUME NEW c \in CountRecords
    PROVE  SettingsIn(c) \in Copies
BY DEF SettingsIn, CountRecords, Copies

LEMMA ChangesTyped ==
    ASSUME NEW set \in Copies
    PROVE  OneChange(set) \subseteq Copies
<1>1. set.stats \in BOOLEAN /\ set.logs \in BOOLEAN /\ set.retention \in {1, 2}
    BY DEF Copies
<1>2. 3 - set.retention \in {1, 2}
    BY <1>1
<1> QED BY <1>1, <1>2 DEF OneChange, Copies

-----------------------------------------------------------------------------
(* The steps of the page *)

\* A change of the page that leaves its resources and their requests to the render.
LEMMA PlainKeeps ==
    ASSUME StatInv, NEW cs, NEW w, NEW pending, NEW p \in StatProfiles,
           NEW copies \in [StatProfiles -> Copies],
           Rendered(cs, w, res, pending, p, copies), counts' = cs, Grown(cs), clock' = clock,
           stFaults' = stFaults, DOMAIN w = ViewFields, w.deps = view.deps, w.timer = view.timer,
           pending \subseteq asks, \A q \in asks : q.kind \in Resources => q \in pending
    PROVE  StatInv'
<1>1. cs \in [StatProfiles -> CountRecords] /\ stFaults' \in 0 .. MaxStatFaults
    BY DEF Grown, StatInv, StatTypes
<1>2. ASSUME NEW k \in Resources
      PROVE  ResOK(cs, k, res[k]) /\ Waits(k, res[k], pending)
  <2>1. ResOK(counts, k, res[k]) /\ Waits(k, res[k], asks)
      BY DEF StatInv, ResInv
  <2>2. Waits(k, res[k], pending)
      BY <2>1 DEF Waits
  <2> QED BY <2>1, <2>2, GrownKeeps
<1>3. \A q \in pending : AskOK(cs, q)
    BY GrownKeeps DEF StatInv
<1>4. Ready(cs, w, res, pending)
    BY <1>2, <1>3 DEF Ready, StatInv, StatTypes
<1>5. Continues(w, res)
    BY DEF Continues
<1>6. CountsSettled(res, pending)
    BY DEF CountsSettled, Resources
<1> QED BY <1>1, <1>4, <1>5, <1>6, RenderKeeps

\* A step that asks for something, or shows something else beside the resources.
LEMMA AskingKeeps ==
    ASSUME StatInv, counts' = counts, stCopy' = stCopy, shown' = shown, res' = res, clock' = clock,
           stFaults' = stFaults, DOMAIN view' = ViewFields, SameView(view', view),
           view'.deps = view.deps,
           \/ view'.timer = view.timer
           \/ /\ view'.timer = Null /\ view.timer # Null /\ view.timer =< clock
              /\ res["stats"].key = Null \/ \E q \in asks' : q.kind = "stats" /\ q.key = res["stats"].key,
           asks \subseteq asks', \A q \in asks' : AskOK(counts, q)
    PROVE  StatInv'
<1>1. PICK cs, copies, p, rs, v0, v1, t, new, set :
          /\ cs = counts /\ copies = stCopy /\ p = shown /\ rs = res /\ v0 = view /\ v1 = view'
          /\ t = clock /\ new = asks' /\ set = Settings
    OBVIOUS
<1>2. PICK due : due = FirstCountsDue(rs, v0, set)
    OBVIOUS
<1>3. /\ Settings' = set /\ set = copies[p]
    BY <1>1 DEF Settings
<1>4. \A k \in Resources : KeyOf(k, v1, p, set) = KeyOf(k, v0, p, set)
    BY <1>1, KeyOfSame
<1>5. RangeOf(v1, set) = RangeOf(v0, set) /\ FirstCountsDue(rs, v1, set) = due
    BY <1>1, <1>2, KeyOfSame, DueSame
<1>6. /\ Due = due /\ Due' = due
      /\ ShownRange = RangeOf(v0, set) /\ ShownRange' = RangeOf(v0, set)
    BY <1>1, <1>2, <1>3, <1>5 DEF Due, ShownRange
<1>7. StatTypes'
    BY <1>1 DEF StatInv, StatTypes
<1>8. \A q \in asks' : AskOK(counts, q)'
    BY DEF AskOK
<1>9. ResInv'
  <2> SUFFICES ASSUME NEW k \in Resources
               PROVE  /\ ResOK(cs, k, rs[k]) /\ rs[k].key = KeyOf(k, v1, p, set)
                      /\ Waits(k, rs[k], new)
      BY <1>1, <1>3 DEF ResInv
  <2>1. ResOK(cs, k, rs[k]) /\ rs[k].key = KeyOf(k, v0, p, set) /\ Waits(k, rs[k], asks)
      BY <1>1 DEF StatInv, ResInv
  <2> QED BY <1>1, <1>4, <2>1 DEF Waits
<1>10. t \in Nat /\ t = clock
    BY <1>1 DEF StatInv, StatTypes
<1>11. /\ v0.timer \in Nat \cup {Null} /\ (v0.timer # Null => t =< v0.timer)
       /\ v0.deps = <<due, p, RangeOf(v0, set)>>
       /\ due # Null => v0.timer = due.refetch \/ due.refetch =< t
    BY <1>1, <1>6 DEF StatInv, TimerInv
<1>12. \/ v1.timer = v0.timer
       \/ v1.timer = Null /\ v0.timer # Null /\ v0.timer =< t
    BY <1>1
<1>13. /\ v1.timer \in Nat \cup {Null} /\ (v1.timer # Null => t =< v1.timer)
       /\ v1.deps = <<due, p, RangeOf(v0, set)>>
       /\ due # Null => v1.timer = due.refetch \/ due.refetch =< t
    BY <1>1, <1>11, <1>12
<1>14. TimerInv'
  <2>1. clock' = t /\ view' = v1 /\ shown' = p
      BY <1>1
  <2> QED BY <1>6, <1>13, <2>1 DEF TimerInv
<1>15. RefetchInv'
  <2> SUFFICES ASSUME stFaults = MaxStatFaults, rs["stats"].status = "ready", ~rs["stats"].refreshing,
                      due # Null
               PROVE  \/ rs["stats"].data.at >= due.refetch
                      \/ v1.timer = due.refetch
                      \/ \E q \in new : q.kind = "stats" /\ q.key = rs["stats"].key
      BY <1>1, <1>6 DEF RefetchInv, Showing
  <2>1. \/ rs["stats"].data.at >= due.refetch
        \/ v0.timer = due.refetch
        \/ \E q \in asks : q.kind = "stats" /\ q.key = rs["stats"].key
      BY <1>1, <1>6 DEF StatInv, RefetchInv, Showing
  <2>2. rs["stats"].key # Null
      BY <1>9, <1>1 DEF ResInv, ResOK, Resources
  <2> QED BY <1>1, <2>1, <2>2
<1> QED BY <1>7, <1>8, <1>9, <1>14, <1>15 DEF StatInv

LEMMA TypedNow ==
    ASSUME StatInv
    PROVE  /\ counts \in [StatProfiles -> CountRecords] /\ stCopy \in [StatProfiles -> Copies]
           /\ shown \in StatProfiles /\ clock \in Nat /\ DOMAIN view = ViewFields
           /\ DOMAIN res = Resources /\ Settings \in Copies
BY DEF StatInv, StatTypes, Settings

\* The picker, the cards that offer another view, and the profile menu.
LEMMA ViewStep ==
    ASSUME StatInv,
           \/ \E v \in Views : PickRange(v)
           \/ ShowLonger \/ ShowShorter
           \/ \E p \in StatProfiles : SwitchShown(p)
    PROVE  StatInv'
<1>1. ASSUME NEW v, Choose(v), OnPage
      PROVE  StatInv'
  <2>1. PICK w : w = SetRange([view EXCEPT !.remembered = v], v)
      OBVIOUS
  <2>2. DOMAIN w = ViewFields /\ w.deps = view.deps /\ w.timer = view.timer
      BY <2>1, TypedNow DEF SetRange, ViewFields
  <2>3. PICK cs, pending, p, copies : cs = counts /\ pending = asks /\ p = shown /\ copies = stCopy
      OBVIOUS
  <2>4. Rendered(cs, w, res, pending, p, copies)
      BY <1>1, <2>1, <2>3 DEF Choose
  <2>5. /\ p \in StatProfiles /\ copies \in [StatProfiles -> Copies] /\ Grown(cs)
        /\ counts' = cs /\ clock' = clock /\ stFaults' = stFaults
      BY <1>1, <2>3, TypedNow, SameGrown DEF OnPage
  <2> QED BY <2>2, <2>3, <2>4, <2>5, PlainKeeps
<1>2. ASSUME NEW p \in StatProfiles, SwitchShown(p)
      PROVE  StatInv'
  <2>1. PICK cs, w, pending, copies : cs = counts /\ w = view /\ pending = asks /\ copies = stCopy
      OBVIOUS
  <2>2. Rendered(cs, w, res, pending, p, copies)
      BY <1>2, <2>1 DEF SwitchShown
  <2>3. /\ copies \in [StatProfiles -> Copies] /\ Grown(cs) /\ DOMAIN w = ViewFields
        /\ counts' = cs /\ clock' = clock /\ stFaults' = stFaults
      BY <1>2, <2>1, TypedNow, SameGrown DEF SwitchShown, OnPage
  <2> QED BY <2>1, <2>2, <2>3, PlainKeeps
<1>3. ASSUME \E v \in Views : PickRange(v)
      PROVE  \E v : Choose(v) /\ OnPage
    BY <1>3 DEF PickRange
<1>4. ASSUME ShowLonger \/ ShowShorter
      PROVE  \E v : Choose(v) /\ OnPage
    BY <1>4 DEF ShowLonger, ShowShorter
<1> QED BY <1>1, <1>2, <1>3, <1>4

LEMMA RetryStep ==
    ASSUME StatInv, NEW k \in Resources, Retry(k)
    PROVE  StatInv'
<1>1. PICK cs, w, p, copies, r, v, no :
          /\ cs = counts /\ w = view /\ p = shown /\ copies = stCopy /\ r = res[k]
          /\ v = ShownRange /\ no = FALSE
    OBVIOUS
<1>2. PICK key, before : key = r.key /\ before = asks
    OBVIOUS
<1>3. PICK q : /\ Ask(cs, before, k, key, p, v, no) = before \cup {q}
               /\ DOMAIN q = AskFields /\ q.kind = k /\ q.key = key /\ q.pid = p /\ q.range = v
               /\ q.silent = no /\ q.old = Answer(cs, k, p, v)
    BY Asked
<1>4. PICK pending : pending = before \cup {q}
    OBVIOUS
<1>5. PICK rs, load : load = NewLoad(r) /\ rs = [res EXCEPT ![k] = load]
    OBVIOUS
<1>6. Rendered(cs, w, rs, pending, p, copies)
    BY <1>1, <1>2, <1>3, <1>4, <1>5 DEF Retry
<1>7. /\ cs \in [StatProfiles -> CountRecords] /\ copies \in [StatProfiles -> Copies]
      /\ p \in StatProfiles /\ clock \in Nat /\ DOMAIN w = ViewFields /\ DOMAIN res = Resources
    BY <1>1, TypedNow
<1>8. counts' = cs /\ clock' = clock /\ stFaults' = stFaults /\ stFaults' \in 0 .. MaxStatFaults
    BY <1>1 DEF Retry, OnPage, StatInv, StatTypes
<1>9. r.status = "error"
  <2>1. Null # "error"
      BY StatisticsAssumption
  <2>2. Card(k) = "error"
      BY DEF Retry
  <2>3. AnyCollection
      BY <2>1, <2>2 DEF Card
  <2>4. \A d : CountsState(d) # "error"
      BY DEF CountsState
  <2>5. CASE k = "stats"
    <3>1. CountsCard = "error"
        BY <2>2, <2>3, <2>5 DEF Card
    <3> QED BY <1>1, <2>4, <2>5, <3>1 DEF CountsCard
  <2>6. CASE k = "lists"
    <3>1. ListsCard = "error"
        BY <2>2, <2>3, <2>6 DEF Card
    <3> QED BY <1>1, <2>6, <3>1 DEF ListsCard, ListSlot
  <2> QED BY <2>5, <2>6 DEF Resources
<1>10. ResOK(cs, k, r) /\ key = KeyOf(k, w, p, Settings)
    BY <1>1, <1>2 DEF StatInv, ResInv
<1>11. key # Null
    BY <1>2, <1>9, <1>10 DEF ResOK
<1>12. key[1] = p /\ key[2] = v
    BY <1>1, <1>10, <1>11, KeyParts DEF ShownRange
<1>13. q.old.pid = p /\ q.old.range = v /\ (k = "stats" => Facts(cs, q.old) /\ q.old.at = clock)
    BY <1>3, <1>7, AnswerFacts
<1>14. AskOK(cs, q)
    BY <1>3, <1>7, <1>11, <1>12, <1>13 DEF AskOK
<1>15. ResOK(cs, k, load) /\ load.key = key /\ load.status = "loading"
    BY <1>2, <1>5, <1>9, <1>10, <1>11 DEF ResOK, NewLoad, ResFields
<1>16. DOMAIN rs = Resources /\ rs[k] = load /\ \A j \in Resources : j # k => rs[j] = res[j]
    BY <1>5, <1>7
<1>17. \A j \in Resources : ResOK(cs, j, rs[j]) /\ Waits(j, rs[j], pending)
  <2> SUFFICES ASSUME NEW j \in Resources
               PROVE  ResOK(cs, j, rs[j]) /\ Waits(j, rs[j], pending)
      OBVIOUS
  <2>1. CASE j = k
      BY <1>1, <1>3, <1>4, <1>15, <1>16, <2>1 DEF Waits
  <2>2. CASE j # k
    <3>1. ResOK(cs, j, res[j]) /\ Waits(j, res[j], before)
        BY <1>1, <1>2 DEF StatInv, ResInv
    <3> QED BY <1>4, <1>16, <2>2, <3>1 DEF Waits
  <2> QED BY <2>1, <2>2
<1>18. Ready(cs, w, rs, pending)
    BY <1>1, <1>2, <1>4, <1>7, <1>14, <1>16, <1>17 DEF Ready, StatInv
<1>19. Continues(w, rs)
    BY <1>1 DEF Continues
<1>20. CountsSettled(rs, pending)
  <2>1. CASE k = "stats"
      BY <1>15, <1>16, <2>1 DEF CountsSettled
  <2>2. CASE k # "stats"
      BY <1>2, <1>4, <1>8, <1>16, <2>2 DEF CountsSettled, Resources
  <2> QED BY <2>1, <2>2
<1> QED BY <1>6, <1>7, <1>8, <1>18, <1>19, <1>20, RenderKeeps

\* Dialogs and sheets, and requests that are not for a resource.
LEMMA DialogStepKeeps ==
    ASSUME StatInv,
           \/ \E id \in Resources \cup {"retention"} : OpenGate(id)
           \/ CloseGate \/ OpenSheet \/ CloseSheet \/ DeleteHistory \/ SubmitRule
    PROVE  StatInv'
<1>1. DOMAIN view = ViewFields
    BY TypedNow
<1>2. /\ DOMAIN view' = ViewFields /\ SameView(view', view) /\ view'.deps = view.deps
      /\ view'.timer = view.timer
    BY <1>1 DEF OpenGate, CloseGate, OpenSheet, CloseSheet, DeleteHistory, SubmitRule, SameView, ViewFields
<1>3. /\ counts' = counts /\ stCopy' = stCopy /\ shown' = shown /\ res' = res /\ clock' = clock
      /\ stFaults' = stFaults
    BY DEF OpenGate, CloseGate, OpenSheet, CloseSheet, DeleteHistory, SubmitRule, OnPage
<1>4. ASSUME NEW kind, kind \notin Resources, asks' = Ask(counts, asks, kind, Null, shown, 1, FALSE)
      PROVE  asks \subseteq asks' /\ \A q \in asks' : AskOK(counts, q)
  <2>1. PICK cs, before, p, no : cs = counts /\ before = asks /\ p = shown /\ no = FALSE
      OBVIOUS
  <2>2. PICK q : /\ Ask(cs, before, kind, Null, p, 1, no) = before \cup {q}
                 /\ DOMAIN q = AskFields /\ q.kind = kind /\ q.pid = p
      BY Asked
  <2>3. AskOK(counts, q)
      BY <1>4, <2>1, <2>2, TypedNow DEF AskOK
  <2> QED BY <1>4, <2>1, <2>2, <2>3 DEF StatInv
<1>5. asks \subseteq asks' /\ \A q \in asks' : AskOK(counts, q)
  <2>1. CASE DeleteHistory \/ SubmitRule
    <3>1. \E kind \in {"delete", "rule"} : asks' = Ask(counts, asks, kind, Null, shown, 1, FALSE)
        BY <2>1 DEF DeleteHistory, SubmitRule
    <3>2. \A kind \in {"delete", "rule"} : kind \notin Resources
        BY DEF Resources
    <3> QED BY <1>4, <3>1, <3>2
  <2>2. CASE ~(DeleteHistory \/ SubmitRule)
    <3>1. asks' = asks
        BY <2>2 DEF OpenGate, CloseGate, OpenSheet, CloseSheet
    <3> QED BY <3>1 DEF StatInv
  <2> QED BY <2>1, <2>2
<1> QED BY <1>2, <1>3, <1>5, AskingKeeps

LEMMA CopiesKept ==
    ASSUME StatInv, NEW p, NEW c \in Copies
    PROVE  [stCopy EXCEPT ![p] = c] \in [StatProfiles -> Copies]
BY TypedNow

LEMMA SaveStep ==
    ASSUME StatInv, NEW set \in OneChange(Settings), SaveCollection(set)
    PROVE  StatInv'
<1>1. set \in Copies
    BY TypedNow, ChangesTyped
<1>2. PICK same \in BOOLEAN : same <=> SettingsIn(counts[shown]) = Settings
    OBVIOUS
<1>3. PICK cs : cs = IF same THEN [counts EXCEPT ![shown] = Recounted(@, set)] ELSE counts
    OBVIOUS
<1>4. PICK w : w = [view EXCEPT !.gate = IF same THEN Null ELSE @]
    OBVIOUS
<1>5. PICK copies : copies = [stCopy EXCEPT ![shown] = IF same THEN set ELSE SettingsIn(counts[shown])]
    OBVIOUS
<1>6. PICK p, pending : p = shown /\ pending = asks
    OBVIOUS
<1>7. Grown(cs)
    BY <1>1, <1>3, RecountedGrows, SameGrown
<1>8. copies \in [StatProfiles -> Copies]
  <2>1. SettingsIn(counts[shown]) \in Copies
      BY TypedNow, SettingsTyped
  <2> QED BY <1>1, <1>5, <2>1, CopiesKept
<1>9. DOMAIN w = ViewFields /\ w.deps = view.deps /\ w.timer = view.timer
    BY <1>4, TypedNow DEF ViewFields
<1>10. counts' = cs
    BY <1>2, <1>3 DEF SaveCollection
<1>11. Rendered(cs, w, res, pending, p, copies)
    BY <1>2, <1>4, <1>5, <1>6, <1>10 DEF SaveCollection
<1>12. clock' = clock /\ stFaults' = stFaults /\ p \in StatProfiles
    BY <1>6, TypedNow DEF SaveCollection
<1> QED BY <1>6, <1>7, <1>8, <1>9, <1>10, <1>11, <1>12, PlainKeeps

LEMMA HistoryGoneStep ==
    ASSUME StatInv, NEW q \in asks, HistoryGone(q)
    PROVE  StatInv'
<1>1. q.pid \in StatProfiles /\ q.kind = "delete"
    BY DEF HistoryGone, StatInv, AskOK
<1>2. PICK pid, t, c : pid = q.pid /\ t = clock /\ c = counts[pid]
    OBVIOUS
<1>3. c \in CountRecords /\ t \in Nat /\ pid \in StatProfiles
    BY <1>1, <1>2, TypedNow
<1>4. PICK after : after = [c EXCEPT !.deletedAt = t, !.epoch = @ + 1]
    OBVIOUS
<1>5. after \in CountRecords /\ after.epoch > c.epoch
  <2>1. /\ c.stats \in BOOLEAN /\ c.logs \in BOOLEAN /\ c.retention \in {1, 2} /\ c.onAt \in Nat
        /\ c.epoch \in Nat
      BY <1>3 DEF CountRecords
  <2>2. after = [stats |-> c.stats, logs |-> c.logs, retention |-> c.retention, onAt |-> c.onAt,
                 deletedAt |-> t, epoch |-> c.epoch + 1]
      BY <1>3, <1>4 DEF CountRecords
  <2>3. after.epoch = c.epoch + 1
      BY <2>2
  <2>4. after \in CountRecords
      BY <1>3, <2>1, <2>2 DEF CountRecords
  <2> QED BY <2>1, <2>3, <2>4
<1>6. PICK cs : cs = [counts EXCEPT ![pid] = after]
    OBVIOUS
<1>7. Grown(cs)
    BY <1>2, <1>3, <1>5, <1>6, GrownBy
<1>8. counts' = cs
  <2>1. counts' = [counts EXCEPT ![pid].deletedAt = t, ![pid].epoch = @ + 1]
      BY <1>2 DEF HistoryGone
  <2>2. [counts EXCEPT ![pid].deletedAt = t, ![pid].epoch = @ + 1] = cs
      BY <1>2, <1>3, <1>4, <1>6, TypedNow DEF CountRecords
  <2> QED BY <2>1, <2>2
<1>9. PICK w, p, pending, copies :
          /\ w = [view EXCEPT !.reload = @ + 1, !.gone = [@ EXCEPT ![q.pid] = counts[q.pid].epoch + 1]]
          /\ p = shown /\ pending = asks \ {q}
          /\ copies = [stCopy EXCEPT ![q.pid] = SettingsIn(counts[q.pid])]
    OBVIOUS
<1>10. Rendered(cs, w, res, pending, p, copies)
    BY <1>8, <1>9 DEF HistoryGone
<1>11. copies \in [StatProfiles -> Copies]
  <2>1. SettingsIn(counts[q.pid]) \in Copies
      BY <1>1, TypedNow, SettingsTyped
  <2> QED BY <1>9, <2>1, CopiesKept
<1>12. DOMAIN w = ViewFields /\ w.deps = view.deps /\ w.timer = view.timer
    BY <1>9, TypedNow DEF ViewFields
<1>13. clock' = clock /\ stFaults' = stFaults /\ p \in StatProfiles
    BY <1>9, TypedNow DEF HistoryGone
<1>14. pending \subseteq asks /\ \A a \in asks : a.kind \in Resources => a \in pending
    BY <1>1, <1>9 DEF Resources
<1> QED BY <1>7, <1>8, <1>10, <1>11, <1>12, <1>13, <1>14, PlainKeeps

\* The answers that are not for a resource.
LEMMA ReadAgainStep ==
    ASSUME StatInv, NEW q \in asks, Revalidated(q) \/ RuleAnswered(q)
    PROVE  StatInv'
<1>1. q.pid \in StatProfiles /\ q.kind \notin Resources
    BY DEF Revalidated, RuleAnswered, StatInv, AskOK, Resources
<1>2. ASSUME NEW w, NEW p \in StatProfiles, NEW copies \in [StatProfiles -> Copies],
             Rendered(counts, w, res, asks \ {q}, p, copies), OnPage,
             DOMAIN w = ViewFields, w.deps = view.deps, w.timer = view.timer
      PROVE  StatInv'
  <2>1. PICK cs, pending : cs = counts /\ pending = asks \ {q}
      OBVIOUS
  <2>2. Rendered(cs, w, res, pending, p, copies) /\ Grown(cs)
      BY <1>2, <2>1, SameGrown
  <2>3. pending \subseteq asks /\ \A a \in asks : a.kind \in Resources => a \in pending
      BY <1>1, <2>1
  <2>4. counts' = cs /\ clock' = clock /\ stFaults' = stFaults
      BY <1>2, <2>1 DEF OnPage
  <2> QED BY <1>2, <2>2, <2>3, <2>4, PlainKeeps
<1>3. PICK read : read = [stCopy EXCEPT ![q.pid] = SettingsIn(counts[q.pid])]
    OBVIOUS
<1>4. read \in [StatProfiles -> Copies]
  <2>1. SettingsIn(counts[q.pid]) \in Copies
      BY <1>1, TypedNow, SettingsTyped
  <2> QED BY <1>3, <2>1, CopiesKept
<1>5. CASE Revalidated(q)
  <2>1. PICK w, p : w = view /\ p = q.pid
      OBVIOUS
  <2>2. Rendered(counts, w, res, asks \ {q}, p, read) /\ OnPage
      BY <1>3, <1>5, <2>1 DEF Revalidated
  <2> QED BY <1>1, <1>2, <1>4, <2>1, <2>2, TypedNow
<1>6. CASE RuleAnswered(q) /\ q.pid \in view.rules
  <2>1. PICK w, p, copies : w = view /\ p = shown /\ copies = stCopy
      OBVIOUS
  <2>2. Rendered(counts, w, res, asks \ {q}, p, copies) /\ OnPage
      BY <1>6, <2>1 DEF RuleAnswered
  <2> QED BY <1>2, <2>1, <2>2, TypedNow
<1>7. CASE RuleAnswered(q) /\ q.pid \notin view.rules
  <2>1. PICK w, p : /\ w = [view EXCEPT !.rules = @ \cup {q.pid}, !.sheet = FALSE,
                                        !.tags = @ \cup {AddedRule(q)}]
                    /\ p = q.pid
      OBVIOUS
  <2>2. Rendered(counts, w, res, asks \ {q}, p, read) /\ OnPage
      BY <1>3, <1>7, <2>1 DEF RuleAnswered
  <2>3. DOMAIN w = ViewFields /\ w.deps = view.deps /\ w.timer = view.timer
      BY <2>1, TypedNow DEF ViewFields
  <2> QED BY <1>1, <1>2, <1>4, <2>1, <2>2, <2>3
<1> QED BY <1>5, <1>6, <1>7

\* An answer for a resource, or none.
LEMMA AnswerStep ==
    ASSUME StatInv, NEW q \in asks, Answered(q)
    PROVE  StatInv'
<1>1. q.kind \in Resources
    BY DEF Answered
<1>2. PICK d : /\ d \in {q.old, Answer(counts, q.kind, q.pid, q.range)}
               /\ Rendered(counts, view, [res EXCEPT ![q.kind] = Succeeded(@, q, d)], asks \ {q}, shown, stCopy)
    BY DEF Answered
<1>3. PICK cs, w, p, copies, k, r, pid, v :
          /\ cs = counts /\ w = view /\ p = shown /\ copies = stCopy /\ k = q.kind /\ r = res[k]
          /\ pid = q.pid /\ v = q.range
    OBVIOUS
<1>4. /\ cs \in [StatProfiles -> CountRecords] /\ copies \in [StatProfiles -> Copies]
      /\ p \in StatProfiles /\ clock \in Nat /\ DOMAIN w = ViewFields /\ DOMAIN res = Resources
    BY <1>3, TypedNow
<1>5. PICK load, rs, pending :
          /\ load = Succeeded(r, q, d) /\ rs = [res EXCEPT ![k] = load] /\ pending = asks \ {q}
    OBVIOUS
<1>6. Rendered(cs, w, rs, pending, p, copies)
    BY <1>2, <1>3, <1>5
<1>7. counts' = cs /\ clock' = clock /\ stFaults' = stFaults /\ stFaults' \in 0 .. MaxStatFaults
    BY <1>3 DEF Answered, OnPage, StatInv, StatTypes
<1>8. AskOK(cs, q)
    BY <1>3 DEF StatInv
<1>9. /\ q.key # Null /\ q.key[1] = pid /\ q.key[2] = v /\ pid \in StatProfiles
      /\ q.old.pid = pid /\ q.old.range = v
      /\ k = "stats" => Facts(cs, q.old) /\ q.old.at = clock
    BY <1>1, <1>3, <1>8 DEF AskOK
<1>10. PICK now : now = Answer(cs, k, pid, v)
    OBVIOUS
<1>11. now.pid = pid /\ now.range = v /\ (k = "stats" => Facts(cs, now) /\ now.at = clock)
  <2>1. now.pid = pid /\ now.range = v
    <3>1. \A kind : Answer(cs, kind, pid, v).pid = pid /\ Answer(cs, kind, pid, v).range = v
        BY DEF Answer
    <3>2. Answer(cs, k, pid, v).pid = pid /\ Answer(cs, k, pid, v).range = v
        BY <3>1
    <3> QED BY <1>10, <3>2
  <2>2. Facts(cs, Answer(cs, "stats", pid, v)) /\ Answer(cs, "stats", pid, v).at = clock
      BY <1>4, <1>9, AnswerFacts
  <2> QED BY <1>10, <2>1, <2>2
<1>12. d.pid = pid /\ d.range = v /\ (k = "stats" => Facts(cs, d) /\ d.at = clock)
    BY <1>2, <1>3, <1>9, <1>10, <1>11
<1>13. ResOK(cs, k, r) /\ Waits(k, r, asks)
    BY <1>1, <1>3 DEF StatInv, ResInv
<1>14. CASE r.key # q.key
  <2>1. load = r
      BY <1>5, <1>14 DEF Succeeded, Current
  <2>2. DOMAIN rs = Resources /\ \A j \in Resources : rs[j] = res[j]
      BY <1>1, <1>3, <1>4, <1>5, <2>1
  <2>3. \A j \in Resources : ResOK(cs, j, rs[j]) /\ Waits(j, rs[j], pending)
    <3> SUFFICES ASSUME NEW j \in Resources
                 PROVE  ResOK(cs, j, rs[j]) /\ Waits(j, rs[j], pending)
        OBVIOUS
    <3>1. ResOK(cs, j, res[j]) /\ Waits(j, res[j], asks)
        BY <1>3 DEF StatInv, ResInv
    <3>2. Waits(j, res[j], pending)
        BY <1>3, <1>5, <1>14, <3>1 DEF Waits
    <3> QED BY <2>2, <3>1, <3>2
  <2>4. \A a \in pending : AskOK(cs, a)
      BY <1>3, <1>5 DEF StatInv
  <2>5. Ready(cs, w, rs, pending)
      BY <1>4, <2>2, <2>3, <2>4 DEF Ready
  <2>6. Continues(w, rs)
      BY <1>3 DEF Continues
  <2>7. CountsSettled(rs, pending)
    <3>1. \A a \in asks : a.kind = "stats" /\ a.key = res["stats"].key => a \in pending
        BY <1>3, <1>5, <1>14
    <3> QED BY <1>7, <2>2, <3>1 DEF CountsSettled, Resources
  <2> QED BY <1>4, <1>6, <1>7, <2>5, <2>6, <2>7, RenderKeeps
<1>15. CASE r.key = q.key
  <2>1. load = [r EXCEPT !.status = "ready", !.data = d, !.refreshing = FALSE]
      BY <1>5, <1>15 DEF Succeeded, Current
  <2>2. /\ DOMAIN load = ResFields /\ load.key = r.key /\ load.scope = r.scope
        /\ load.status = "ready" /\ load.data = d /\ load.refreshing = FALSE
      BY <1>13, <2>1 DEF ResOK, ResFields
  <2>3. r.scope = pid
      BY <1>9, <1>13, <1>15 DEF ResOK
  <2>4. ResOK(cs, k, load)
      BY <1>9, <1>12, <1>15, <2>2, <2>3 DEF ResOK
  <2>5. DOMAIN rs = Resources /\ rs[k] = load /\ \A j \in Resources : j # k => rs[j] = res[j]
      BY <1>1, <1>3, <1>4, <1>5
  <2>6. \A j \in Resources : ResOK(cs, j, rs[j]) /\ Waits(j, rs[j], pending)
    <3> SUFFICES ASSUME NEW j \in Resources
                 PROVE  ResOK(cs, j, rs[j]) /\ Waits(j, rs[j], pending)
        OBVIOUS
    <3>1. CASE j = k
        BY <2>2, <2>4, <2>5, <3>1 DEF Waits
    <3>2. CASE j # k
      <4>1. ResOK(cs, j, res[j]) /\ Waits(j, res[j], asks)
          BY <1>3 DEF StatInv, ResInv
      <4> QED BY <1>3, <1>5, <2>5, <3>2, <4>1 DEF Waits
    <3> QED BY <3>1, <3>2
  <2>7. \A a \in pending : AskOK(cs, a)
      BY <1>3, <1>5 DEF StatInv
  <2>8. Ready(cs, w, rs, pending)
      BY <1>4, <2>5, <2>6, <2>7 DEF Ready
  <2>9. Continues(w, rs)
      BY <1>3 DEF Continues
  <2>10. CountsSettled(rs, pending)
    <3>1. CASE k = "stats"
        BY <1>12, <2>2, <2>5, <3>1 DEF CountsSettled
    <3>2. CASE k # "stats"
        BY <1>3, <1>5, <1>7, <2>5, <3>2 DEF CountsSettled, Resources
    <3> QED BY <3>1, <3>2
  <2> QED BY <1>4, <1>6, <1>7, <2>8, <2>9, <2>10, RenderKeeps
<1> QED BY <1>14, <1>15

LEMMA NoAnswerStep ==
    ASSUME StatInv, NEW q \in asks, NotAnswered(q)
    PROVE  StatInv'
<1>1. PICK cs, w, p, copies, k, r :
          /\ cs = counts /\ w = view /\ p = shown /\ copies = stCopy /\ k = q.kind /\ r = res[k]
    OBVIOUS
<1>2. /\ cs \in [StatProfiles -> CountRecords] /\ copies \in [StatProfiles -> Copies]
      /\ p \in StatProfiles /\ clock \in Nat /\ DOMAIN w = ViewFields /\ DOMAIN res = Resources
    BY <1>1, TypedNow
<1>3. PICK load, rs, pending :
          /\ load = Failed(r, q)
          /\ rs = (IF k \in Resources THEN [res EXCEPT ![k] = load] ELSE res)
          /\ pending = asks \ {q}
    OBVIOUS
<1>4. Rendered(cs, w, rs, pending, p, copies)
    BY <1>1, <1>3 DEF NotAnswered
<1>5. MaxStatFaults \in Nat
    BY StatisticsAssumption
<1>6. /\ counts' = cs /\ clock' = clock /\ stFaults' \in 0 .. MaxStatFaults
      /\ stFaults' # MaxStatFaults
    BY <1>1, <1>5 DEF NotAnswered, StatInv, StatTypes
<1>7. /\ DOMAIN rs = Resources /\ (k \in Resources => rs[k] = load)
      /\ \A j \in Resources : j # k => rs[j] = res[j]
    BY <1>2, <1>3
<1>8. \A j \in Resources : ResOK(cs, j, rs[j]) /\ Waits(j, rs[j], pending)
  <2> SUFFICES ASSUME NEW j \in Resources
               PROVE  ResOK(cs, j, rs[j]) /\ Waits(j, rs[j], pending)
      OBVIOUS
  <2>1. ResOK(cs, j, res[j]) /\ Waits(j, res[j], asks)
      BY <1>1 DEF StatInv, ResInv
  <2>2. CASE j # k
      BY <1>1, <1>3, <1>7, <2>1, <2>2 DEF Waits
  <2>3. CASE j = k /\ r.key = q.key /\ ~q.silent
    <3>1. q.key # Null
        BY <1>1, <2>3 DEF StatInv, AskOK
    <3>2. load = [NewLoad(r) EXCEPT !.status = "error"]
        BY <1>3, <2>3 DEF Failed, Current
    <3>3. /\ DOMAIN load = ResFields /\ load.key = r.key /\ load.scope = r.scope
          /\ load.status = "error" /\ load.data = Null /\ load.refreshing = FALSE
        BY <1>1, <2>1, <2>3, <3>2 DEF ResOK, ResFields, NewLoad
    <3>4. ResOK(cs, k, load)
        BY <1>1, <2>1, <2>3, <3>1, <3>3 DEF ResOK
    <3> QED BY <1>7, <2>3, <3>3, <3>4 DEF Waits
  <2>4. CASE j = k /\ ~(r.key = q.key /\ ~q.silent)
    <3>1. load = r
        BY <1>3, <2>4 DEF Failed, Current
    <3>2. Waits(j, r, pending)
        BY <1>1, <1>3, <2>1, <2>4 DEF Waits
    <3> QED BY <1>1, <1>7, <2>1, <2>4, <3>1, <3>2
  <2> QED BY <2>2, <2>3, <2>4
<1>9. \A a \in pending : AskOK(cs, a)
    BY <1>1, <1>3 DEF StatInv
<1>10. Ready(cs, w, rs, pending)
    BY <1>2, <1>7, <1>8, <1>9 DEF Ready
<1>11. Continues(w, rs)
    BY <1>1 DEF Continues
<1>12. CountsSettled(rs, pending)
    BY <1>6 DEF CountsSettled
<1> QED BY <1>2, <1>4, <1>6, <1>10, <1>11, <1>12, RenderKeeps

LEMMA ReopenStep ==
    ASSUME StatInv, Reopen
    PROVE  StatInv'
<1>1. PICK cs, w, p, copies, pending, rs :
          /\ cs = counts /\ p = shown /\ copies = stCopy
          /\ w = PageOf(Null, view.remembered, view.tags, view.rules, view.gone)
          /\ pending = {q \in asks : q.kind \in {"profile", "rule"}}
          /\ rs = [k \in Resources |-> Idle]
    OBVIOUS
<1>2. /\ cs \in [StatProfiles -> CountRecords] /\ copies \in [StatProfiles -> Copies]
      /\ p \in StatProfiles
    BY <1>1, TypedNow
<1>3. Rendered(cs, w, rs, pending, p, copies)
    BY <1>1 DEF Reopen
<1>4. /\ counts' = cs /\ clock' = clock /\ stFaults' \in 0 .. MaxStatFaults
    BY <1>1 DEF Reopen, OnPage, StatInv, StatTypes
<1>5. DOMAIN w = ViewFields /\ w.timer = Null
    BY <1>1 DEF PageOf, ViewFields
<1>6. ResOK(cs, "stats", Idle) /\ ResOK(cs, "lists", Idle) /\ Idle.status = "idle" /\ ~Idle.refreshing
    BY DEF ResOK, Idle, ResFields
<1>7. \A j \in Resources : ResOK(cs, j, rs[j]) /\ Waits(j, rs[j], pending)
    BY <1>1, <1>6 DEF Resources, Waits
<1>8. \A a \in pending : AskOK(cs, a)
    BY <1>1 DEF StatInv
<1>9. Ready(cs, w, rs, pending)
    BY <1>1, <1>5, <1>7, <1>8 DEF Ready
<1>10. rs["stats"] = Idle
    BY <1>1 DEF Resources
<1>11. Continues(w, rs)
    BY <1>5, <1>10 DEF Continues
<1>12. CountsSettled(rs, pending)
    BY <1>6, <1>10 DEF CountsSettled
<1> QED BY <1>2, <1>3, <1>4, <1>9, <1>11, <1>12, RenderKeeps

\* A request for what a resource shows.
LEMMA AgainOK ==
    ASSUME StatInv, NEW k \in Resources, res[k].key # Null, NEW silent
    PROVE  \E q : /\ Ask(counts, asks, k, res[k].key, shown, ShownRange, silent) = asks \cup {q}
                  /\ q.kind = k /\ q.key = res[k].key /\ AskOK(counts, q)
<1>1. PICK cs, before, p, key, v :
          /\ cs = counts /\ before = asks /\ p = shown /\ key = res[k].key /\ v = ShownRange
    OBVIOUS
<1>2. PICK q : /\ Ask(cs, before, k, key, p, v, silent) = before \cup {q}
               /\ DOMAIN q = AskFields /\ q.kind = k /\ q.key = key /\ q.pid = p /\ q.range = v
               /\ q.old = Answer(cs, k, p, v)
    BY Asked
<1>3. cs \in [StatProfiles -> CountRecords] /\ p \in StatProfiles /\ clock \in Nat
    BY <1>1, TypedNow
<1>4. key # Null /\ key[1] = p /\ key[2] = v
  <2>1. PICK w, set : w = view /\ set = Settings
      OBVIOUS
  <2>2. key = KeyOf(k, w, p, set) /\ key # Null /\ v = RangeOf(w, set)
      BY <1>1, <2>1 DEF StatInv, ResInv, ShownRange
  <2> QED BY <2>2, KeyParts
<1>5. q.old.pid = p /\ q.old.range = v /\ (k = "stats" => Facts(cs, q.old) /\ q.old.at = clock)
    BY <1>2, <1>3, AnswerFacts
<1>6. AskOK(cs, q)
    BY <1>2, <1>3, <1>4, <1>5 DEF AskOK
<1> QED BY <1>1, <1>2, <1>6

LEMMA VisibleStep ==
    ASSUME StatInv, BecomesVisible
    PROVE  StatInv'
<1>1. PICK old, more :
          /\ old = {k \in Resources : res[k].key # Null}
          /\ more = UNION {Ask(counts, asks, k, res[k].key, shown, ShownRange, TRUE) : k \in old}
    OBVIOUS
<1>2. asks' = asks \cup more
    BY <1>1 DEF BecomesVisible
<1>3. ASSUME NEW q \in more
      PROVE  AskOK(counts, q)
  <2>1. PICK k \in old : q \in Ask(counts, asks, k, res[k].key, shown, ShownRange, TRUE)
      BY <1>1, <1>3
  <2>2. k \in Resources /\ res[k].key # Null
      BY <1>1
  <2>3. PICK yes : yes = TRUE
      OBVIOUS
  <2>4. PICK a : /\ Ask(counts, asks, k, res[k].key, shown, ShownRange, yes) = asks \cup {a}
                 /\ AskOK(counts, a)
      BY <2>2, AgainOK
  <2> QED BY <2>1, <2>3, <2>4 DEF StatInv
<1>4. asks \subseteq asks' /\ \A q \in asks' : AskOK(counts, q)
    BY <1>2, <1>3 DEF StatInv
<1>5. /\ counts' = counts /\ stCopy' = stCopy /\ shown' = shown /\ res' = res /\ clock' = clock
      /\ stFaults' = stFaults /\ view' = view
    BY DEF BecomesVisible, OnPage
<1>6. DOMAIN view' = ViewFields /\ SameView(view', view)
    BY <1>5, TypedNow DEF SameView
<1> QED BY <1>4, <1>5, <1>6, AskingKeeps

LEMMA TimerStep ==
    ASSUME StatInv, TimerFires
    PROVE  StatInv'
<1>1. /\ counts' = counts /\ stCopy' = stCopy /\ shown' = shown /\ res' = res /\ clock' = clock
      /\ stFaults' = stFaults /\ view' = [view EXCEPT !.timer = Null]
      /\ view.timer # Null /\ clock >= view.timer
    BY DEF TimerFires, OnPage
<1>2. /\ DOMAIN view' = ViewFields /\ SameView(view', view) /\ view'.deps = view.deps
      /\ view'.timer = Null
    BY <1>1, TypedNow DEF SameView, ViewFields
<1>3. view.timer =< clock
  <2>1. view.timer \in Nat /\ clock \in Nat
      BY <1>1, TypedNow DEF StatInv, TimerInv
  <2> QED BY <1>1, <2>1
<1>4. CASE res["stats"].key = Null
  <2>1. asks' = asks
      BY <1>4 DEF TimerFires
  <2>2. \A q \in asks' : AskOK(counts, q)
      BY <2>1 DEF StatInv
  <2> QED BY <1>1, <1>2, <1>3, <1>4, <2>1, <2>2, AskingKeeps
<1>5. CASE res["stats"].key # Null
  <2>1. PICK k, yes : k = "stats" /\ yes = TRUE
      OBVIOUS
  <2>2. PICK q : /\ Ask(counts, asks, k, res[k].key, shown, ShownRange, yes) = asks \cup {q}
                 /\ q.kind = k /\ q.key = res[k].key /\ AskOK(counts, q)
      BY <1>5, <2>1, AgainOK DEF Resources
  <2>3. asks' = asks \cup {q}
      BY <1>5, <2>1, <2>2 DEF TimerFires
  <2>4. asks \subseteq asks' /\ \A a \in asks' : AskOK(counts, a)
      BY <2>2, <2>3 DEF StatInv
  <2>5. \E a \in asks' : a.kind = "stats" /\ a.key = res["stats"].key
      BY <2>1, <2>2, <2>3
  <2> QED BY <1>1, <1>2, <1>3, <2>4, <2>5, AskingKeeps
<1> QED BY <1>4, <1>5

LEMMA StandStill ==
    ASSUME StatInv, UNCHANGED statVars
    PROVE  StatInv'
<1>1. /\ counts' = counts /\ stCopy' = stCopy /\ shown' = shown /\ res' = res /\ clock' = clock
      /\ stFaults' = stFaults /\ view' = view /\ asks' = asks
    BY DEF statVars
<1>2. DOMAIN view' = ViewFields /\ SameView(view', view)
    BY <1>1, TypedNow DEF SameView
<1>3. \A q \in asks' : AskOK(counts, q)
    BY <1>1 DEF StatInv
<1> QED BY <1>1, <1>2, <1>3, AskingKeeps

LEMMA DueTyped ==
    ASSUME StatInv, Due # Null
    PROVE  Due.refetch \in Nat
<1>1. ResOK(counts, "stats", res["stats"])
    BY DEF StatInv, ResInv, Resources
<1>2. Facts(counts, res["stats"].data) \/ res["stats"].status # "ready"
    BY <1>1 DEF ResOK
<1>3. PICK cs, rs, w, set : cs = counts /\ rs = res /\ w = view /\ set = Settings
    OBVIOUS
<1>4. PICK due : due = FirstCountsDue(rs, w, set)
    OBVIOUS
<1>5. Due = due
    BY <1>3, <1>4 DEF Due
<1>6. PICK b : b = ExpectedFirstCounts(RangeOf(w, set), rs["stats"].data.onAt, rs["stats"].data.deletedAt)
    OBVIOUS
<1>7. b \in Nat /\ due.refetch = b + 2
    BY <1>2, <1>3, <1>4, <1>5, <1>6, DueParts
<1> QED BY <1>5, <1>7

LEMMA TickStep ==
    ASSUME StatInv, Tick
    PROVE  StatInv'
<1>1. /\ counts' = counts /\ stCopy' = stCopy /\ shown' = shown /\ res' = res /\ clock' = clock + 1
      /\ stFaults' = stFaults /\ view' = view /\ asks' = asks /\ asks = {}
      /\ clock < MaxClock /\ (view.timer # Null => clock < view.timer)
    BY DEF Tick
<1>2. PICK cs, copies, p, rs, v0, set, due :
          /\ cs = counts /\ copies = stCopy /\ p = shown /\ rs = res /\ v0 = view
          /\ set = Settings /\ due = Due
    OBVIOUS
<1>3. clock \in Nat /\ MaxClock \in Nat
    BY TypedNow, StatisticsAssumption
<1>4. Settings' = set
    BY <1>1, <1>2 DEF Settings
<1>5. due = FirstCountsDue(rs, v0, set) /\ Due' = due /\ ShownRange' = ShownRange
    BY <1>1, <1>2, <1>4 DEF Due, ShownRange
<1>6. StatTypes'
    BY <1>1, <1>3 DEF StatInv, StatTypes
<1>7. ResInv'
  <2> SUFFICES ASSUME NEW k \in Resources
               PROVE  /\ ResOK(cs, k, rs[k]) /\ rs[k].key = KeyOf(k, v0, p, set)
                      /\ Waits(k, rs[k], asks)
      BY <1>1, <1>2, <1>4 DEF ResInv
  <2> QED BY <1>2 DEF StatInv, ResInv
<1>8. /\ view.timer \in Nat \cup {Null} /\ (view.timer # Null => clock =< view.timer)
      /\ view.deps = <<due, shown, ShownRange>>
      /\ due # Null => view.timer = due.refetch \/ due.refetch =< clock
    BY <1>2 DEF StatInv, TimerInv
<1>9. due # Null => due.refetch \in Nat
    BY <1>2, DueTyped
<1>10. /\ view.timer # Null => clock + 1 =< view.timer
       /\ due # Null => view.timer = due.refetch \/ due.refetch =< clock + 1
    BY <1>1, <1>3, <1>8, <1>9
<1>11. TimerInv'
    BY <1>1, <1>5, <1>8, <1>10 DEF TimerInv
<1>12. RefetchInv'
  <2> SUFFICES ASSUME stFaults = MaxStatFaults, rs["stats"].status = "ready", ~rs["stats"].refreshing,
                      due # Null
               PROVE  \/ rs["stats"].data.at >= due.refetch
                      \/ v0.timer = due.refetch
      BY <1>1, <1>2, <1>5 DEF RefetchInv, Showing
  <2> QED BY <1>1, <1>2 DEF StatInv, RefetchInv, Showing
<1> QED BY <1>1, <1>6, <1>7, <1>11, <1>12 DEF StatInv

LEMMA OtherTabStep ==
    ASSUME StatInv, NEW p \in StatProfiles, NEW new \in OneChange(SettingsIn(counts[p])),
           OtherTabSets(p, new)
    PROVE  StatInv'
<1>1. new \in Copies
    BY TypedNow, SettingsTyped, ChangesTyped
<1>2. PICK cs : cs = [counts EXCEPT ![p] = Recounted(@, new)]
    OBVIOUS
<1>3. Grown(cs)
    BY <1>1, <1>2, RecountedGrows
<1>4. /\ counts' = cs /\ stCopy' = stCopy /\ shown' = shown /\ res' = res /\ clock' = clock
      /\ stFaults' = stFaults - 1 /\ stFaults > 0 /\ view' = view /\ asks' = asks
    BY <1>2 DEF OtherTabSets
<1>5. stFaults \in 0 .. MaxStatFaults /\ MaxStatFaults \in Nat
    BY StatisticsAssumption DEF StatInv, StatTypes
<1>6. stFaults' \in 0 .. MaxStatFaults /\ stFaults' # MaxStatFaults
    BY <1>4, <1>5
<1>7. PICK sh, rs, v0, set, pending :
          /\ sh = shown /\ rs = res /\ v0 = view /\ set = Settings /\ pending = asks
    OBVIOUS
<1>8. Settings' = set
    BY <1>4, <1>7 DEF Settings
<1>9. Due' = Due /\ ShownRange' = ShownRange
    BY <1>4, <1>7, <1>8 DEF Due, ShownRange
<1>10. StatTypes'
    BY <1>3, <1>4, <1>6 DEF StatInv, StatTypes, Grown
<1>11. ResInv'
  <2> SUFFICES ASSUME NEW k \in Resources
               PROVE  /\ ResOK(cs, k, rs[k]) /\ rs[k].key = KeyOf(k, v0, sh, set)
                      /\ Waits(k, rs[k], pending)
      BY <1>4, <1>7, <1>8 DEF ResInv
  <2>1. ResOK(counts, k, rs[k]) /\ rs[k].key = KeyOf(k, v0, sh, set) /\ Waits(k, rs[k], pending)
      BY <1>7 DEF StatInv, ResInv
  <2> QED BY <1>3, <2>1, GrownKeeps
<1>12. TimerInv'
    BY <1>4, <1>9 DEF StatInv, TimerInv
<1>13. RefetchInv'
    BY <1>6 DEF RefetchInv
<1>14. \A q \in asks' : AskOK(counts, q)'
  <2>1. \A q \in asks : AskOK(cs, q)
      BY <1>3, GrownKeeps DEF StatInv
  <2> QED BY <1>4, <2>1 DEF AskOK
<1> QED BY <1>10, <1>11, <1>12, <1>13, <1>14 DEF StatInv

LEMMA StatNextKeeps ==
    ASSUME StatInv, StatisticsNext
    PROVE  StatInv'
<1>1. CASE \/ \E v \in Views : PickRange(v)
           \/ ShowLonger \/ ShowShorter
           \/ \E p \in StatProfiles : SwitchShown(p)
    BY <1>1, ViewStep
<1>2. CASE \/ \E id \in Resources \cup {"retention"} : OpenGate(id)
           \/ CloseGate \/ OpenSheet \/ CloseSheet \/ DeleteHistory \/ SubmitRule
    BY <1>2, DialogStepKeeps
<1>3. CASE \E k \in Resources : Retry(k)
    BY <1>3, RetryStep
<1>4. CASE \E set \in OneChange(Settings) : SaveCollection(set)
    BY <1>4, SaveStep
<1>5. CASE \E q \in asks : \/ Answered(q) \/ NotAnswered(q) \/ Revalidated(q)
                           \/ HistoryGone(q) \/ RuleAnswered(q)
    BY <1>5, AnswerStep, NoAnswerStep, ReadAgainStep, HistoryGoneStep
<1>6. CASE BecomesVisible \/ TimerFires \/ Tick \/ Reopen
    BY <1>6, VisibleStep, TimerStep, TickStep, ReopenStep
<1>7. CASE \E p \in StatProfiles : \E new \in OneChange(SettingsIn(counts[p])) : OtherTabSets(p, new)
    BY <1>7, OtherTabStep
<1> QED BY <1>1, <1>2, <1>3, <1>4, <1>5, <1>6, <1>7 DEF StatisticsNext

\* The least number of a set.
LEMMA LeastIn ==
    ASSUME NEW S \in SUBSET Nat, S # {}
    PROVE  Min(S) \in S
<1>1. PICK x \in S : \A y \in S : ~(<<y, x>> \in OpToRel(<, Nat))
    BY WFMin, NatLessThanWellFounded
<1>2. \A y \in S : x =< y
  <2> SUFFICES ASSUME NEW y \in S PROVE x =< y
      OBVIOUS
  <2>1. ~(y < x)
      BY <1>1 DEF OpToRel
  <2> QED BY <2>1
<1> QED BY <1>2 DEF Min

LEMMA StatInitKeeps == StatisticsInit => StatInv
<1> SUFFICES ASSUME StatisticsInit PROVE StatInv
    OBVIOUS
<1>1. PICK url, w, rs, none, set, s :
          /\ w = PageOf(url, Null, {}, {}, [p \in StatProfiles |-> 0])
          /\ rs = [k \in Resources |-> Idle] /\ none = {} /\ set = stCopy[shown]
          /\ s = AfterRender(counts, w, rs, none, shown, set)
          /\ view = s.w /\ res = s.rs /\ asks = s.asks
    BY DEF StatisticsInit
<1>2. PICK cs, p, t : cs = counts /\ p = shown /\ t = clock
    OBVIOUS
<1>3. t = 0 /\ MaxClock \in Nat /\ MaxStatFaults \in Nat /\ stFaults = MaxStatFaults /\ t \in 0 .. MaxClock
    BY <1>2, StatisticsAssumption DEF StatisticsInit
<1>4. p \in StatProfiles
    BY <1>2, LeastIn, StatisticsAssumption DEF StatisticsInit
<1>5. \A q \in StatProfiles : NewCounts(q \in Busy) \in CountRecords
    BY DEF NewCounts, CountRecords
<1>6. cs \in [StatProfiles -> CountRecords]
    BY <1>2, <1>5 DEF StatisticsInit
<1>7. stCopy \in [StatProfiles -> Copies]
    BY <1>2, <1>6, SettingsTyped DEF StatisticsInit
<1>8. DOMAIN w = ViewFields /\ w.timer = Null /\ w.deps = Null
    BY <1>1 DEF PageOf, ViewFields
<1>9. ResOK(cs, "stats", Idle) /\ ResOK(cs, "lists", Idle) /\ Idle.status = "idle" /\ ~Idle.refreshing
    BY DEF ResOK, Idle, ResFields
<1>10. DOMAIN rs = Resources /\ \A j \in Resources : rs[j] = Idle /\ ResOK(cs, j, rs[j]) /\ Waits(j, rs[j], none)
    BY <1>1, <1>9 DEF Resources, Waits
<1>11. \A q \in none : AskOK(cs, q)
    BY <1>1
<1>12. s = AfterRender(cs, w, rs, none, p, set)
    BY <1>1, <1>2
<1>13. clock \in Nat
    BY <1>2, <1>3
<1>14. /\ DOMAIN s.w = ViewFields /\ DOMAIN s.rs = Resources
       /\ \A q \in s.asks : AskOK(cs, q)
       /\ \A k \in Resources :
             /\ ResOK(cs, k, s.rs[k]) /\ s.rs[k].key = KeyOf(k, s.w, p, set)
             /\ Waits(k, s.rs[k], s.asks) /\ Kept(rs[k], s.rs[k])
       /\ s.w.deps = DepsOf(s.rs, s.w, p, set)
       /\ \/ s.w.timer = RuleOf(FirstCountsDue(s.rs, s.w, set))
          \/ s.w.deps = w.deps /\ s.w.timer = w.timer
    BY <1>4, <1>6, <1>8, <1>10, <1>11, <1>12, <1>13, RenderParts
<1>15. s.rs["stats"].status # "ready"
    BY <1>9, <1>10, <1>14 DEF Kept, Resources
<1>16. FirstCountsDue(s.rs, s.w, set) = Null
    BY <1>15 DEF FirstCountsDue
<1>17. s.w.timer = Null
    BY <1>8, <1>14, <1>16 DEF RuleOf
<1>18. Settings = set /\ Due = Null /\ ShownRange = RangeOf(s.w, set)
    BY <1>1, <1>16 DEF Settings, Due, ShownRange
<1>19. StatTypes
    BY <1>1, <1>2, <1>3, <1>4, <1>6, <1>7, <1>14 DEF StatTypes
<1>20. ResInv
    BY <1>1, <1>2, <1>14, <1>18 DEF ResInv
<1>21. TimerInv
    BY <1>1, <1>2, <1>14, <1>16, <1>17, <1>18 DEF TimerInv, DepsOf
<1>22. RefetchInv
    BY <1>18 DEF RefetchInv
<1> QED BY <1>1, <1>2, <1>14, <1>19, <1>20, <1>21, <1>22 DEF StatInv

LEMMA StatInvariant == StatisticsSpec => []StatInv
<1>1. StatInv /\ [StatisticsNext]_statVars => StatInv'
    BY StatNextKeeps, StandStill
<1> QED BY <1>1, StatInitKeeps, PTL DEF StatisticsSpec

\* Counts and lists that are not marked as being refreshed are the shown profile's, of the
\* view the picker names, for any number of profiles, clicks and late answers
\* (useApiResource's effect and its check that the key is still current).
THEOREM PageShowsItsView == StatisticsSpec => []ViewExact
<1>1. StatInv => ViewExact
  <2> SUFFICES ASSUME StatInv PROVE ViewExact
      OBVIOUS
  <2>1. ASSUME NEW k \in Resources, res[k].status = "ready"
        PROVE  /\ res[k].data.pid = shown
               /\ ~res[k].refreshing => res[k].data.range = ShownRange
    <3>1. PICK w, p, set : w = view /\ p = shown /\ set = Settings
        OBVIOUS
    <3>2. ResOK(counts, k, res[k]) /\ res[k].key = KeyOf(k, w, p, set)
        BY <3>1 DEF StatInv, ResInv
    <3>3. res[k].key # Null
        BY <2>1, <3>2 DEF ResOK
    <3>4. res[k].key[1] = p /\ res[k].key[2] = RangeOf(w, set)
        BY <3>2, <3>3, KeyParts
    <3> QED BY <2>1, <3>1, <3>2, <3>3, <3>4 DEF ResOK, ShownRange
  <2> QED BY <2>1 DEF ViewExact, Showing, Resources
<1> QED BY <1>1, StatInvariant, PTL

\* A skeleton or a refresh mark has its request in flight, one whose failure is shown, also
\* while silent requests for the same key come and go (useApiResource's load).
THEOREM WaitsForWhatWasAsked == StatisticsSpec => []NeverStuck
<1>1. StatInv => NeverStuck
    BY DEF StatInv, ResInv, Waits, NeverStuck
<1> QED BY <1>1, StatInvariant, PTL

\* Once the moment of the first counts has passed and nothing is asked for, the page does
\* not say that nothing is counted while the server has counts: whatever was read before
\* that moment is read again, by the timer or by what replaced it, and the counts it waits
\* for hold a quarter of their own (expectedFirstCountsAt and the page's refetch effect).
THEOREM FirstCountsAreShown == StatisticsSpec => []FirstCountsShown
<1>1. StatInv => FirstCountsShown
  <2> SUFFICES ASSUME StatInv, Showing("stats"), stFaults = MaxStatFaults, asks = {},
                      res["stats"].data.epoch = counts[shown].epoch,
                      Due # Null, clock > Due.refetch
               PROVE  ~Answer(counts, "stats", shown, ShownRange).total
      BY DEF FirstCountsShown, Due
  <2>1. PICK w, p, set, cs, rs, t, due :
            /\ w = view /\ p = shown /\ set = Settings /\ cs = counts /\ rs = res /\ t = clock
            /\ due = Due
      OBVIOUS
  <2>2. PICK r, d, v : r = rs["stats"] /\ d = r.data /\ v = RangeOf(w, set)
      OBVIOUS
  <2>3. ResOK(cs, "stats", r) /\ r.key = KeyOf("stats", w, p, set) /\ "stats" \in Resources
      BY <2>1, <2>2 DEF StatInv, ResInv, Resources
  <2>4. r.status = "ready" /\ ~r.refreshing
      BY <2>1, <2>2 DEF Showing
  <2>5. r.key # Null
      BY <2>3, <2>4 DEF ResOK
  <2>6. r.key[1] = p /\ r.key[2] = v
      BY <2>2, <2>3, <2>5, KeyParts
  <2>7. d.pid = p /\ d.range = v /\ Facts(cs, d)
      BY <2>2, <2>3, <2>4, <2>5, <2>6 DEF ResOK
  <2>8. p \in StatProfiles /\ t \in Nat /\ cs \in [StatProfiles -> CountRecords] /\ t =< MaxClock /\ MaxClock \in Nat
      BY <2>1, TypedNow, StatisticsAssumption DEF StatInv, StatTypes
  <2>9. due = FirstCountsDue(rs, w, set) /\ due # Null /\ t > due.refetch
      BY <2>1 DEF Due
  <2>10. PICK b : b = ExpectedFirstCounts(v, d.onAt, d.deletedAt)
      OBVIOUS
  <2>11. b # Null /\ b \in Nat /\ CountsState(d) = "no-queries-yet" /\ due.refetch = b + 2
      BY <2>2, <2>7, <2>9, <2>10, DueParts
  <2>12. ~d.total
      BY <2>11 DEF CountsState
  <2>13. d.at >= due.refetch
    <3>1. \/ d.at >= due.refetch
          \/ view.timer = due.refetch
        BY <2>1, <2>2 DEF StatInv, RefetchInv
    <3>2. view.timer # Null => t =< view.timer
        BY <2>1 DEF StatInv, TimerInv
    <3>3. due.refetch # Null
        BY <2>11, StatisticsAssumption
    <3> QED BY <2>8, <2>9, <2>11, <3>1, <3>2, <3>3
  <2>14. /\ d.onAt \in Nat \cup {Null} /\ d.deletedAt \in Nat \cup {Null} /\ d.at \in Nat
         /\ d.epoch = cs[p].epoch
      BY <2>1, <2>2, <2>7 DEF Facts
  <2>15. /\ b > 0 /\ b % Quarter = 0 /\ b > Latest(d.onAt, d.deletedAt)
         /\ v # 1 /\ d.deletedAt # Null => (b - Quarter) \div Coarse > d.deletedAt \div Coarse
      BY <2>10, <2>11, <2>14, FirstBucket
  <2>16. b \in 1 .. MaxClock /\ b < d.at
      BY <2>8, <2>9, <2>11, <2>13, <2>14, <2>15
  <2>17. b \in CountedQuarters(d, v)
      BY <2>15, <2>16 DEF CountedQuarters
  <2>18. d.enabled = cs[p].stats
      BY <2>7, <2>14 DEF Facts
  <2>19. CASE ~cs[p].stats
      BY <2>1, <2>19 DEF Answer
  <2>20. CASE cs[p].stats
    <3>1. ~(p \in Busy)
        BY <2>7, <2>12, <2>16, <2>17, <2>18, <2>20 DEF Facts
    <3> QED BY <2>1, <3>1 DEF Answer
  <2> QED BY <2>19, <2>20
<1> QED BY <1>1, StatInvariant, PTL

-----------------------------------------------------------------------------
(* The query logs page *)

\* What the theorems take for granted of JavaScript's null: it is no request.
NullHasNoPage == "page" \notin DOMAIN Null

\* The numbers of the first k rows of a profile that match, the rows themselves, and
\* the place of row n among them in the order of time.
Hits(k, p, q) == {n \in 1 .. k : Matches(q, <<p, n>>)}
Matching(k, p, q) == {<<p, n>> : n \in Hits(k, p, q)}
Rank(k, p, q, n) == Cardinality({m \in Hits(k, p, q) : m >= n})

\* No hole in S among these rows.
Solid(S, k, p, q) ==
    \A n \in Hits(k, p, q) :
        (\E r \in S : r[2] <= n) /\ (\E r \in S : n <= r[2]) => <<p, n>> \in S

\* The first row is the newest.
NewestFirst(s) == \A i \in 1 .. Len(s) : s[i][2] <= s[1][2]

\* Some row has at least place d.
Reached(d, s, k, p, q) == \E i \in 1 .. Len(s) : Rank(k, p, q, s[i][2]) >= d

\* All rows of S are newer than those of T; no row of T is newer than all of S.
Above(S, T) == \A r \in S, u \in T : r[2] > u[2]
Behind(T, S) == \A r \in T : \E u \in S : r[2] <= u[2]

Listed(s, k, p, q) == s \in Seq(Matching(k, p, q)) /\ Solid(RowsOf(s), k, p, q) /\ NewestFirst(s)

\* The staged rows go before the list.
GoesBefore(s, t, k, p, q) ==
    /\ s \in Seq(Matching(k, p, q)) /\ NewestFirst(s)
    /\ Above(RowsOf(s), RowsOf(t))
    /\ Solid(RowsOf(s) \cup RowsOf(t), k, p, q)

\* What the list and the staged rows are while they stem from one reading: paging has
\* reached the page that is asked for, or is asked for next.
Held(v, loading, k, p, q) ==
    /\ Listed(v.logs, k, p, q)
    /\ v.logs = <<>> => v.page = 1 /\ v.pending = <<>>
    /\ v.page > 1 => Reached(Offset(v.page), v.logs, k, p, q)
    /\ ~loading /\ v.hasMore /\ v.logs # <<>> => Reached(Offset(v.page + 1), v.logs, k, p, q)
    /\ v.pending # <<>> /\ ~v.overflow => GoesBefore(v.pending, v.logs, k, p, q)

\* The first page of the rows that had been logged when n of them were.
FirstPage(s, n, p, q) ==
    /\ s \in Seq(Matching(n, p, q)) /\ Len(s) <= First
    /\ \A i, j \in 1 .. Len(s) : i < j => s[i][2] > s[j][2]
    /\ \A m \in Hits(n, p, q) :
          (Len(s) < First \/ \E i \in 1 .. Len(s) : s[i][2] <= m)
          => \E i \in 1 .. Len(s) : s[i] = <<p, m>>

Single == ~mixed /\ query.sort = "created"

NotNewerThan(v, n) ==
    /\ \A i \in 1 .. Len(v.logs) : v.logs[i][2] <= n
    /\ v.pending # <<>> /\ ~v.overflow => \A i \in 1 .. Len(v.pending) : v.pending[i][2] <= n

\* A tick's answer is the first page of an earlier moment; if nothing has replaced the
\* list since, no row of it is newer than that moment.
TickRead(t, n) ==
    /\ n <= arrived[t.profile]
    /\ FirstPage(t.rows, n, t.profile, t.query)
    /\ Len(t.rows) = First => Reached(First, t.rows, arrived[t.profile], t.profile, t.query)
    /\ Single /\ ~t.late /\ t.profile = activePid /\ t.query = query => NotNewerThan(listing, n)

ListingFields == {"logs", "page", "hasMore", "capped", "error", "pending", "overflow"}
TickFields == {"profile", "query", "rows", "late"}

LogsShape ==
    /\ DOMAIN listing = ListingFields /\ listing.page \in Nat \ {0}
    /\ listing.hasMore \in BOOLEAN /\ listing.overflow \in BOOLEAN /\ mixed \in BOOLEAN
    /\ activePid \in ProfilesOf /\ arrived \in [ProfilesOf -> Int]
    /\ submit # Null => submit.profile \in ProfilesOf
    /\ fetch # Null => fetch = Request(listing.page, activePid, query)
    /\ tick # Null => /\ DOMAIN tick = TickFields /\ tick.profile \in ProfilesOf
                      /\ tick.late \in BOOLEAN /\ tick.query.sort = "created"
    /\ ~mixed /\ listing.pending # <<>> => query.sort = "created"

LogsHeld == Single => Held(listing, Loading, arrived[activePid], activePid, query)

TickSound == tick # Null /\ tick.rows # Null => \E n \in Int : TickRead(tick, n)

LogsInv == LogsShape /\ LogsHeld /\ TickSound

-----------------------------------------------------------------------------
LEMMA HitsFinite ==
    ASSUME NEW k \in Int, NEW p, NEW q
    PROVE  /\ Hits(k, p, q) \subseteq Nat /\ IsFiniteSet(Hits(k, p, q))
           /\ Cardinality(Hits(k, p, q)) \in Nat
           /\ \A n : Rank(k, p, q, n) \in Nat
<1>1. IsFiniteSet(1 .. k) /\ Hits(k, p, q) \in SUBSET (1 .. k)
  BY FS_Interval DEF Hits
<1>2. IsFiniteSet(Hits(k, p, q))
  BY <1>1, FS_Subset
<1>3. ASSUME NEW n
      PROVE  Rank(k, p, q, n) \in Nat
  <2>1. {m \in Hits(k, p, q) : m >= n} \in SUBSET Hits(k, p, q)
    OBVIOUS
  <2>2. IsFiniteSet({m \in Hits(k, p, q) : m >= n})
    BY <1>2, <2>1, FS_Subset
  <2> QED BY <2>2, FS_CardinalityType DEF Rank
<1> QED BY <1>1, <1>2, <1>3, FS_CardinalityType

LEMMA RankFalls ==
    ASSUME NEW k \in Int, NEW p, NEW q, NEW m \in Hits(k, p, q), NEW n \in Int, m < n
    PROVE  Rank(k, p, q, n) < Rank(k, p, q, m)
<1> DEFINE T == {i \in Hits(k, p, q) : i >= n}
           S == {i \in Hits(k, p, q) : i >= m}
<1>1. Hits(k, p, q) \subseteq Nat /\ IsFiniteSet(Hits(k, p, q))
  BY HitsFinite
<1>2. S \in SUBSET Hits(k, p, q) /\ T \in SUBSET S /\ m \in S /\ m \notin T
  BY <1>1
<1>3. IsFiniteSet(S)
  BY <1>1, <1>2, FS_Subset
<1>4. IsFiniteSet(T) /\ Cardinality(T) <= Cardinality(S) /\ Cardinality(S) # Cardinality(T)
  BY <1>2, <1>3, FS_Subset
<1>5. Cardinality(S) \in Nat /\ Cardinality(T) \in Nat
  BY <1>3, <1>4, FS_CardinalityType
<1>6. Cardinality(T) < Cardinality(S)
  BY <1>4, <1>5
<1> QED BY <1>6 DEF Rank

LEMMA RankRange ==
    ASSUME NEW k \in Int, NEW p, NEW q, NEW n \in Hits(k, p, q)
    PROVE  Rank(k, p, q, n) \in 1 .. Cardinality(Hits(k, p, q))
<1> DEFINE T == {i \in Hits(k, p, q) : i >= n}
<1>1. Hits(k, p, q) \subseteq Nat /\ IsFiniteSet(Hits(k, p, q))
  BY HitsFinite
<1>2. T \in SUBSET Hits(k, p, q) /\ n \in T
  BY <1>1
<1>3. IsFiniteSet(T) /\ Cardinality(T) <= Cardinality(Hits(k, p, q))
  BY <1>1, <1>2, FS_Subset
<1>4. Cardinality(T) \in Nat /\ Cardinality(T) # 0 /\ Cardinality(Hits(k, p, q)) \in Nat
  BY <1>1, <1>2, <1>3, FS_CardinalityType, FS_EmptySet
<1>5. Cardinality(T) \in 1 .. Cardinality(Hits(k, p, q))
  BY <1>3, <1>4
<1> QED BY <1>5 DEF Rank

\* Every place is taken.
LEMMA RankOnto ==
    ASSUME NEW k \in Int, NEW p, NEW q
    PROVE  \A j \in 1 .. Cardinality(Hits(k, p, q)) :
               \E n \in Hits(k, p, q) : Rank(k, p, q, n) = j
<1> DEFINE H == Hits(k, p, q)
           C == Cardinality(H)
           f == [n \in H |-> Rank(k, p, q, n)]
<1>1. H \subseteq Nat /\ IsFiniteSet(H) /\ C \in Nat
  BY HitsFinite
<1>2. \A n \in H : Rank(k, p, q, n) \in 1 .. C
  BY RankRange
<1>3. IsFiniteSet(1 .. C) /\ Cardinality(1 .. C) = C
  BY <1>1, FS_Interval
<1>4. \A m, n \in H : m < n => Rank(k, p, q, n) < Rank(k, p, q, m)
  BY <1>1, RankFalls
<1>5. \A m, n \in H : f[m] = f[n] => m = n
  <2> SUFFICES ASSUME NEW m \in H, NEW n \in H, f[m] = f[n], m # n PROVE FALSE
    OBVIOUS
  <2>1. m < n \/ n < m
    BY <1>1
  <2>2. Rank(k, p, q, m) = Rank(k, p, q, n) /\ Rank(k, p, q, n) \in Int
    BY <1>1, <1>2
  <2> QED BY <2>1, <2>2, <1>4
<1>6. f \in Injection(H, 1 .. C)
  BY <1>2, <1>5 DEF Injection, IsInjective
<1>7. f \in Surjection(H, 1 .. C)
  BY <1>1, <1>3, <1>6, FS_Injection
<1>8. \A j \in 1 .. C : \E n \in H : f[n] = j
  BY <1>7 DEF Surjection
<1> QED BY <1>8

\* More rows only push a row further down.
LEMMA RankGrows ==
    ASSUME NEW k \in Int, NEW l \in Int, k <= l, NEW p, NEW q, NEW n
    PROVE  Rank(k, p, q, n) <= Rank(l, p, q, n)
<1> DEFINE T == {i \in Hits(k, p, q) : i >= n}
           S == {i \in Hits(l, p, q) : i >= n}
<1>1. T \in SUBSET S /\ S \in SUBSET Hits(l, p, q)
  BY DEF Hits
<1>2. IsFiniteSet(S)
  BY <1>1, HitsFinite, FS_Subset
<1>3. Cardinality(T) <= Cardinality(S)
  BY <1>1, <1>2, FS_Subset
<1> QED BY <1>3 DEF Rank

\* The server's answers in the order of time.
LEMMA ServedInOrder ==
    ASSUME NEW p, NEW q, q.sort = "created", arrived[p] \in Int
    PROVE  LET k == arrived[p]
           IN /\ Served(p, q) \in Seq(Matching(k, p, q))
              /\ Len(Served(p, q)) = Cardinality(Hits(k, p, q))
              /\ \A j \in 1 .. Cardinality(Hits(k, p, q)) :
                    Served(p, q)[j][2] \in Hits(k, p, q) /\ Rank(k, p, q, Served(p, q)[j][2]) = j
<1> DEFINE k == arrived[p]
           H == Hits(k, p, q)
           C == Cardinality(H)
           row(j) == CHOOSE n \in H : PlaceOf(p, q, n) = j
<1>1. Found(p, q) = H
  BY DEF Found, Hits
<1>2. H \subseteq Nat /\ C \in Nat
  BY HitsFinite
<1>3. ASSUME NEW n \in H
      PROVE  PlaceOf(p, q, n) = Rank(k, p, q, n)
  <2>1. \A m \in H : Precedes(p, q, m, n) <=> m > n
    BY DEF Precedes
  <2>2. {m \in H : m = n \/ Precedes(p, q, m, n)} = {m \in H : m >= n}
    BY <1>2, <2>1
  <2> QED BY <1>1, <2>2 DEF PlaceOf, Rank
<1>4. ASSUME NEW j \in 1 .. C
      PROVE  row(j) \in H /\ Rank(k, p, q, row(j)) = j
  <2>1. \E n \in H : PlaceOf(p, q, n) = j
    BY <1>3, RankOnto
  <2>2. row(j) \in H /\ PlaceOf(p, q, row(j)) = j
    BY <2>1
  <2> QED BY <2>2, <1>3
<1> HIDE DEF row
<1>5. Served(p, q) = [j \in 1 .. C |-> <<p, row(j)>>]
  BY <1>1 DEF Served, row
<1>6. \A j \in 1 .. C : <<p, row(j)>> \in Matching(k, p, q)
  BY <1>4 DEF Matching
<1>7. Served(p, q) \in [1 .. C -> Matching(k, p, q)]
  BY <1>5, <1>6
<1>8. Served(p, q) \in Seq(Matching(k, p, q)) /\ Len(Served(p, q)) = C
  BY <1>2, <1>7, SeqDef, LenProperties
<1>9. \A j \in 1 .. C : Served(p, q)[j][2] = row(j)
  BY <1>5
<1>10. \A j \in 1 .. C :
          Served(p, q)[j][2] \in H /\ Rank(k, p, q, Served(p, q)[j][2]) = j
  BY <1>4, <1>9
<1> QED BY <1>8, <1>10

LEMMA MinOfPair ==
    ASSUME NEW a \in Int, NEW b \in Int
    PROVE  Min({a, b}) = IF a <= b THEN a ELSE b
<1>1. Min({a, b}) = CHOOSE x \in {a, b} : \A y \in {a, b} : x <= y
  BY DEF Min
<1>2. \E x \in {a, b} : \A y \in {a, b} : x <= y
  OBVIOUS
<1>3. Min({a, b}) \in {a, b} /\ \A y \in {a, b} : Min({a, b}) <= y
  BY <1>1, <1>2
<1> QED BY <1>3

\* A page of the list starts where the pages before it end.
LEMMA PageStarts ==
    ASSUME NEW g \in Nat \ {0}
    PROVE  /\ Offset(g) \in Nat /\ LimitOf(g) \in Nat \ {0}
           /\ (ServerPage(g) - 1) * LimitOf(g) = Offset(g)
           /\ Offset(g + 1) = Offset(g) + LimitOf(g)
<1>1. Limit \in Nat \ {0} /\ First \in Nat \ {0} /\ First % Limit = 0
  BY PageLimits
<1>2. CASE g = 1
  <2>1. Offset(1) = 0 /\ LimitOf(1) = First /\ ServerPage(1) = 0 \div First + 1
    BY DEF Offset, LimitOf, ServerPage
  <2>2. 0 \div First = 0
    BY <1>1
  <2>3. Offset(2) = First
    BY <1>1 DEF Offset
  <2> QED BY <1>1, <1>2, <2>1, <2>2, <2>3
<1>3. CASE g # 1
  <2>1. Offset(g) = First + (g - 2) * Limit /\ LimitOf(g) = Limit
    BY <1>3 DEF Offset, LimitOf
  <2>2. ServerPage(g) = Offset(g) \div Limit + 1
    BY <1>3, <2>1 DEF ServerPage
  <2>3. PICK a \in Nat : First = Limit * a
    <3>1. First = Limit * (First \div Limit) + (First % Limit) /\ First \div Limit \in Nat
      BY <1>1
    <3>2. First = Limit * (First \div Limit)
      BY <1>1, <3>1
    <3> QED BY <3>1, <3>2
  <2>4. a + (g - 2) \in Nat
    BY <1>3
  <2>5. Offset(g) = Limit * (a + (g - 2))
    BY <1>1, <1>3, <2>1, <2>3
  <2>6. \A x \in Nat, d \in Nat \ {0} : (d * x) \div d = x
    OBVIOUS
  <2>7. Offset(g) \div Limit = a + (g - 2)
    BY <1>1, <2>4, <2>5, <2>6
  <2>8. (ServerPage(g) - 1) * LimitOf(g) = Limit * (a + (g - 2))
    BY <1>1, <2>1, <2>2, <2>4, <2>7
  <2>9. Offset(g + 1) = First + (g - 1) * Limit
    BY <1>3 DEF Offset
  <2>10. (g - 1) * Limit = (g - 2) * Limit + Limit
    BY <1>1
  <2>11. Offset(g + 1) = Offset(g) + LimitOf(g)
    BY <1>1, <2>1, <2>9, <2>10
  <2>12. Offset(g) \in Nat
    BY <1>1, <2>4, <2>5
  <2> QED BY <1>1, <2>1, <2>5, <2>8, <2>11, <2>12
<1> QED BY <1>2, <1>3

LEMMA RankInjective ==
    ASSUME NEW k \in Int, NEW p, NEW q, NEW m \in Hits(k, p, q), NEW n \in Hits(k, p, q),
           Rank(k, p, q, m) = Rank(k, p, q, n)
    PROVE  m = n
<1>1. m \in Int /\ n \in Int /\ Rank(k, p, q, n) \in Int
  BY HitsFinite
<1>2. ~(m < n) /\ ~(n < m)
  BY <1>1, RankFalls
<1> QED BY <1>1, <1>2

LEMMA OwnRow ==
    ASSUME NEW k \in Int, NEW p, NEW q, NEW r \in Matching(k, p, q)
    PROVE  r = <<p, r[2]>> /\ r[1] = p /\ r[2] \in Hits(k, p, q) /\ r[2] \in 1 .. k
<1>1. PICK n \in Hits(k, p, q) : r = <<p, n>>
  BY DEF Matching
<1>2. n \in 1 .. k
  BY DEF Hits
<1> QED BY <1>1, <1>2

\* s is the c rows after the first d, or what there is of them.
PageIs(s, d, c, k, p, q) ==
    /\ s \in Seq(Matching(k, p, q)) /\ Len(s) <= c
    /\ \A i \in 1 .. Len(s) : Rank(k, p, q, s[i][2]) = d + i
    /\ \A n \in Hits(k, p, q) :
          d < Rank(k, p, q, n) /\ (Rank(k, p, q, n) <= d + c \/ Len(s) < c)
          => \E i \in 1 .. Len(s) : s[i] = <<p, n>>

LEMMA PageServed ==
    ASSUME NEW g \in Nat \ {0}, NEW p, NEW q, q.sort = "created", arrived[p] \in Int
    PROVE  PageIs(PageRows(Request(g, p, q)), Offset(g), LimitOf(g), arrived[p], p, q)
<1> DEFINE k == arrived[p]
           C == Cardinality(Hits(k, p, q))
           S == Served(p, q)
           d == Offset(g)
           c == LimitOf(g)
           e == IF d + c <= C THEN d + c ELSE C
           s == SubSeq(S, d + 1, e)
<1>1. /\ S \in Seq(Matching(k, p, q)) /\ Len(S) = C /\ C \in Nat
      /\ \A j \in 1 .. C : S[j][2] \in Hits(k, p, q) /\ Rank(k, p, q, S[j][2]) = j
  BY ServedInOrder, HitsFinite
<1>2. d \in Nat /\ c \in Nat \ {0} /\ (ServerPage(g) - 1) * c = d
  BY PageStarts
<1>3. Min({d + c, C}) = e /\ e \in Nat /\ e <= C /\ e <= d + c /\ (e = C \/ e = d + c)
  BY <1>1, <1>2, MinOfPair
<1>4. PageRows(Request(g, p, q)) = s
  BY <1>1, <1>2, <1>3 DEF PageRows, Request
<1> HIDE DEF k, C, S, d, c, e
<1>5. \A i \in (d + 1) .. e : S[i] \in Matching(k, p, q)
  <2>1. \A i \in 1 .. C : S[i] \in Matching(k, p, q)
    BY <1>1, ElementOfSeq
  <2>2. \A i \in (d + 1) .. e : i \in 1 .. C
    BY <1>1, <1>2, <1>3
  <2> QED BY <2>1, <2>2
<1>6. /\ s \in Seq(Matching(k, p, q))
      /\ Len(s) = IF d + 1 <= e THEN e - d ELSE 0
      /\ \A i \in 1 .. e - d : s[i] = S[d + i]
  <2>1. d + 1 \in Int /\ e \in Int
    BY <1>2, <1>3
  <2>2. /\ s \in Seq(Matching(k, p, q))
        /\ Len(s) = IF d + 1 <= e THEN e - (d + 1) + 1 ELSE 0
        /\ \A i \in 1 .. e - (d + 1) + 1 : s[i] = S[(d + 1) + i - 1]
    BY <1>5, <2>1, SubSeqProperties
  <2> QED BY <1>2, <1>3, <2>2
<1> HIDE DEF s
<1>7. Len(s) <= c
  BY <1>1, <1>2, <1>3, <1>6
<1>8. \A i \in 1 .. Len(s) : i \in 1 .. e - d /\ d + i \in 1 .. C
  BY <1>1, <1>2, <1>3, <1>6
<1>9. \A i \in 1 .. Len(s) : Rank(k, p, q, s[i][2]) = d + i
  BY <1>1, <1>6, <1>8
<1>10. ASSUME NEW n \in Hits(k, p, q), d < Rank(k, p, q, n),
              Rank(k, p, q, n) <= d + c \/ Len(s) < c
       PROVE  \E i \in 1 .. Len(s) : s[i] = <<p, n>>
  <2> DEFINE j == Rank(k, p, q, n)
  <2>1. k \in Int
    BY DEF k
  <2>2. j \in 1 .. C
    BY <2>1, RankRange DEF C
  <2> HIDE DEF j
  <2>3. j <= e /\ j - d \in 1 .. Len(s)
    BY <1>1, <1>2, <1>3, <1>6, <1>10, <2>2 DEF j
  <2>4. s[j - d] = S[j]
    BY <1>2, <1>3, <1>6, <2>2, <2>3
  <2>5. S[j][2] = n
    BY <1>1, <2>1, <2>2, RankInjective DEF j
  <2>6. S[j] \in Matching(k, p, q)
    BY <1>1, <2>2, ElementOfSeq
  <2>7. S[j] = <<p, n>>
    BY <2>1, <2>5, <2>6, OwnRow
  <2> QED BY <2>3, <2>4, <2>7
<1>11. PageIs(s, d, c, k, p, q)
  BY <1>6, <1>7, <1>9, <1>10 DEF PageIs
<1> QED BY <1>4, <1>11 DEF s, d, c, k, S

LEMMA RowsIn ==
    ASSUME NEW k \in Int, NEW p, NEW q, NEW s \in Seq(Matching(k, p, q))
    PROVE  /\ Len(s) \in Nat /\ DOMAIN s = 1 .. Len(s)
           /\ RowsOf(s) = {s[i] : i \in 1 .. Len(s)} /\ RowsOf(s) \subseteq Matching(k, p, q)
           /\ \A i \in 1 .. Len(s) : /\ s[i] = <<p, s[i][2]>> /\ s[i] \in RowsOf(s)
                                     /\ s[i][2] \in Hits(k, p, q) /\ s[i][2] \in 1 .. k
<1>1. Len(s) \in Nat /\ DOMAIN s = 1 .. Len(s)
  BY LenProperties
<1>2. \A i \in 1 .. Len(s) : s[i] \in Matching(k, p, q)
  BY ElementOfSeq
<1>3. RowsOf(s) = {s[i] : i \in 1 .. Len(s)}
  BY <1>1 DEF RowsOf
<1> QED BY <1>1, <1>2, <1>3, OwnRow

LEMMA RowOfIn ==
    ASSUME NEW k \in Int, NEW p, NEW q, NEW s \in Seq(Matching(k, p, q)), NEW r \in RowsOf(s)
    PROVE  /\ \E i \in 1 .. Len(s) : r = s[i]
           /\ r = <<p, r[2]>> /\ r[1] = p /\ r[2] \in Hits(k, p, q) /\ r[2] \in 1 .. k
BY RowsIn, OwnRow

LEMMA FirstPageServed ==
    ASSUME NEW k \in Int, NEW p, NEW q, NEW s, PageIs(s, 0, First, k, p, q)
    PROVE  FirstPage(s, k, p, q) /\ (Len(s) = First => Reached(First, s, k, p, q))
<1>1. /\ s \in Seq(Matching(k, p, q)) /\ Len(s) <= First
      /\ \A i \in 1 .. Len(s) : Rank(k, p, q, s[i][2]) = i
      /\ \A n \in Hits(k, p, q) :
            0 < Rank(k, p, q, n) /\ (Rank(k, p, q, n) <= First \/ Len(s) < First)
            => \E i \in 1 .. Len(s) : s[i] = <<p, n>>
  <2>1. First \in Nat /\ 0 + First = First
    BY PageLimits
  <2>2. \A i \in 1 .. Len(s) : Rank(k, p, q, s[i][2]) = 0 + i /\ 0 + i = i
    BY DEF PageIs
  <2> QED BY <2>1, <2>2 DEF PageIs
<1>2. First \in Nat \ {0} /\ Len(s) \in Nat /\ \A i \in 1 .. Len(s) : s[i][2] \in Hits(k, p, q)
  BY <1>1, RowsIn, PageLimits
<1>3. Hits(k, p, q) \subseteq Nat /\ \A n : Rank(k, p, q, n) \in Nat
  BY HitsFinite
<1>4. ASSUME NEW i \in 1 .. Len(s), NEW j \in 1 .. Len(s), i < j
      PROVE  s[i][2] > s[j][2]
  <2>1. s[i][2] # s[j][2]
    BY <1>1, <1>2, <1>4
  <2>2. ~(s[i][2] < s[j][2])
    <3>1. s[i][2] < s[j][2] => Rank(k, p, q, s[j][2]) < Rank(k, p, q, s[i][2])
      BY <1>2, <1>3, RankFalls
    <3> QED BY <1>1, <1>2, <1>4, <3>1
  <2> QED BY <1>2, <1>3, <2>1, <2>2
<1>5. ASSUME NEW m \in Hits(k, p, q), Len(s) < First \/ \E i \in 1 .. Len(s) : s[i][2] <= m
      PROVE  \E i \in 1 .. Len(s) : s[i] = <<p, m>>
  <2>1. Rank(k, p, q, m) > 0
    BY RankRange, <1>3
  <2>2. CASE Len(s) < First
    BY <1>1, <2>1, <2>2
  <2>3. ASSUME NEW i \in 1 .. Len(s), s[i][2] <= m
        PROVE  Rank(k, p, q, m) <= First
    <3>1. s[i][2] < m => Rank(k, p, q, m) < Rank(k, p, q, s[i][2])
      BY <1>2, <1>3, RankFalls
    <3>2. s[i][2] < m \/ s[i][2] = m
      BY <1>2, <1>3, <2>3
    <3>3. Rank(k, p, q, s[i][2]) = i
      BY <1>1
    <3> QED BY <1>1, <1>2, <1>3, <3>1, <3>2, <3>3
  <2> QED BY <1>1, <1>5, <2>1, <2>2, <2>3
<1>6. Len(s) = First => Reached(First, s, k, p, q)
  BY <1>1, <1>2 DEF Reached
<1> QED BY <1>1, <1>4, <1>5, <1>6 DEF FirstPage

LEMMA OwnGrows ==
    ASSUME NEW n \in Int, NEW k \in Int, n <= k, NEW p, NEW q
    PROVE  /\ Hits(n, p, q) = {m \in Hits(k, p, q) : m <= n}
           /\ Matching(n, p, q) \subseteq Matching(k, p, q)
           /\ \A s \in Seq(Matching(n, p, q)) : s \in Seq(Matching(k, p, q))
<1>1. Hits(n, p, q) = {m \in Hits(k, p, q) : m <= n}
  BY DEF Hits
<1>2. Matching(n, p, q) \subseteq Matching(k, p, q)
  BY <1>1 DEF Matching
<1> QED BY <1>1, <1>2, SeqMonotonic

\* The first page of an earlier moment is still a list without a hole.
LEMMA FirstPageListed ==
    ASSUME NEW n \in Int, NEW k \in Int, n <= k, NEW p, NEW q, NEW s, FirstPage(s, n, p, q)
    PROVE  Listed(s, k, p, q)
<1>1. /\ s \in Seq(Matching(n, p, q))
      /\ \A i, j \in 1 .. Len(s) : i < j => s[i][2] > s[j][2]
      /\ \A m \in Hits(n, p, q) :
            (Len(s) < First \/ \E i \in 1 .. Len(s) : s[i][2] <= m)
            => \E i \in 1 .. Len(s) : s[i] = <<p, m>>
  BY DEF FirstPage
<1>2. s \in Seq(Matching(k, p, q))
  BY <1>1, OwnGrows
<1>3. /\ Len(s) \in Nat /\ RowsOf(s) = {s[i] : i \in 1 .. Len(s)}
      /\ \A i \in 1 .. Len(s) : s[i][2] \in 1 .. n
  BY <1>1, RowsIn
<1>4. NewestFirst(s)
  BY <1>1, <1>3 DEF NewestFirst
<1>5. ASSUME NEW m \in Hits(k, p, q), NEW i \in 1 .. Len(s), s[i][2] <= m,
             NEW j \in 1 .. Len(s), m <= s[j][2]
      PROVE  <<p, m>> \in RowsOf(s)
  <2>1. m \in Hits(n, p, q)
    BY <1>3, <1>5, OwnGrows, HitsFinite
  <2> QED BY <1>1, <1>3, <1>5, <2>1
<1>6. Solid(RowsOf(s), k, p, q)
  BY <1>3, <1>5 DEF Solid
<1> QED BY <1>2, <1>4, <1>6 DEF Listed

LEMMA RowsTogether ==
    ASSUME NEW S, NEW s \in Seq(S), NEW t \in Seq(S)
    PROVE  /\ s \o t \in Seq(S) /\ Len(s \o t) = Len(s) + Len(t)
           /\ RowsOf(s \o t) = RowsOf(s) \cup RowsOf(t)
           /\ \A i \in 1 .. Len(s) : (s \o t)[i] = s[i]
           /\ \A i \in 1 .. Len(t) : (s \o t)[Len(s) + i] = t[i]
<1>1. /\ s \o t \in Seq(S) /\ Len(s \o t) = Len(s) + Len(t)
      /\ \A i \in 1 .. Len(s) + Len(t) :
            (s \o t)[i] = IF i <= Len(s) THEN s[i] ELSE t[i - Len(s)]
  BY ConcatProperties
<1>2. /\ Len(s) \in Nat /\ Len(t) \in Nat /\ DOMAIN s = 1 .. Len(s) /\ DOMAIN t = 1 .. Len(t)
      /\ DOMAIN (s \o t) = 1 .. Len(s) + Len(t)
  BY <1>1, LenProperties
<1> DEFINE w == s \o t
<1> HIDE DEF w
<1>3. \A i \in 1 .. Len(s) : i \in 1 .. Len(s) + Len(t) /\ w[i] = s[i]
  BY <1>1, <1>2 DEF w
<1>4. \A i \in 1 .. Len(t) : Len(s) + i \in 1 .. Len(s) + Len(t) /\ w[Len(s) + i] = t[i]
  <2> TAKE i \in 1 .. Len(t)
  <2>1. Len(s) + i \in 1 .. Len(s) + Len(t) /\ ~(Len(s) + i <= Len(s)) /\ Len(s) + i - Len(s) = i
    BY <1>2
  <2> QED BY <1>1, <2>1 DEF w
<1>5. \A i \in 1 .. Len(s) + Len(t) : i \in 1 .. Len(s) \/ \E j \in 1 .. Len(t) : i = Len(s) + j
  <2> TAKE i \in 1 .. Len(s) + Len(t)
  <2>1. i \in 1 .. Len(s) \/ (i - Len(s) \in 1 .. Len(t) /\ i = Len(s) + (i - Len(s)))
    BY <1>2
  <2> QED BY <2>1
<1>6. RowsOf(w) = RowsOf(s) \cup RowsOf(t)
  <2>1. RowsOf(w) = {w[i] : i \in 1 .. Len(s) + Len(t)}
    BY <1>2 DEF RowsOf, w
  <2>2. RowsOf(s) = {s[i] : i \in 1 .. Len(s)} /\ RowsOf(t) = {t[i] : i \in 1 .. Len(t)}
    BY <1>2 DEF RowsOf
  <2>3. RowsOf(s) \cup RowsOf(t) \subseteq RowsOf(w)
    BY <1>3, <1>4, <2>1, <2>2
  <2>4. ASSUME NEW i \in 1 .. Len(s) + Len(t)
        PROVE  w[i] \in RowsOf(s) \cup RowsOf(t)
    <3>1. CASE i \in 1 .. Len(s)
      BY <1>3, <2>2, <3>1
    <3>2. ASSUME NEW j \in 1 .. Len(t), i = Len(s) + j
          PROVE  w[i] \in RowsOf(t)
      BY <1>4, <2>2, <3>2
    <3> QED BY <1>5, <3>1, <3>2
  <2> QED BY <2>1, <2>3, <2>4
<1> QED BY <1>1, <1>3, <1>4, <1>6 DEF w

LEMMA NumbersOf ==
    ASSUME NEW k \in Int, NEW p, NEW q
    PROVE  \A r \in Matching(k, p, q) :
               r = <<p, r[2]>> /\ r[2] \in Hits(k, p, q) /\ r[2] \in Nat
BY OwnRow, HitsFinite

\* A page that starts where the list ends, or before it, leaves no hole.
LEMMA SolidPage ==
    ASSUME NEW k \in Int, NEW p, NEW q, NEW d \in Nat, NEW c \in Nat,
           NEW S \in SUBSET Matching(k, p, q), NEW T \in SUBSET Matching(k, p, q),
           Solid(S, k, p, q),
           NEW v \in S, Rank(k, p, q, v[2]) >= d,
           \A r \in T : Rank(k, p, q, r[2]) <= d + c,
           \A n \in Hits(k, p, q) :
               d < Rank(k, p, q, n) /\ Rank(k, p, q, n) <= d + c => <<p, n>> \in T,
           Behind(T, S)
    PROVE  Solid(S \cup T, k, p, q)
<1>1. /\ \A r \in S \cup T : r = <<p, r[2]>> /\ r[2] \in Hits(k, p, q) /\ r[2] \in Nat
      /\ Hits(k, p, q) \subseteq Nat /\ \A n : Rank(k, p, q, n) \in Nat
  BY NumbersOf, HitsFinite
<1>2. ASSUME NEW n \in Hits(k, p, q), NEW a \in S \cup T, a[2] <= n,
             NEW b \in S \cup T, n <= b[2]
      PROVE  <<p, n>> \in S \cup T
  <2>1. PICK u \in S : n <= u[2]
    BY <1>1, <1>2 DEF Behind
  <2>2. CASE \E r \in S : r[2] <= n
    BY <2>1, <2>2 DEF Solid
  <2>3. CASE ~ \E r \in S : r[2] <= n
    <3>1. n < v[2] /\ a \in T
      BY <1>1, <1>2, <2>3
    <3>2. Rank(k, p, q, v[2]) < Rank(k, p, q, n)
      BY <1>1, <3>1, RankFalls
    <3>3. Rank(k, p, q, n) <= Rank(k, p, q, a[2])
      <4>1. a[2] < n => Rank(k, p, q, n) < Rank(k, p, q, a[2])
        BY <1>1, RankFalls
      <4>2. a[2] < n \/ a[2] = n
        BY <1>1, <1>2
      <4> QED BY <1>1, <4>1, <4>2
    <3>4. Rank(k, p, q, a[2]) <= d + c
      BY <3>1
    <3>5. d < Rank(k, p, q, n) /\ Rank(k, p, q, n) <= d + c
      BY <1>1, <3>2, <3>3, <3>4
    <3> QED BY <3>5
  <2> QED BY <2>2, <2>3
<1> QED BY <1>2 DEF Solid

\* Rows that continue a list continue it still when older ones are added to it.
LEMMA SolidBehind ==
    ASSUME NEW k \in Int, NEW p, NEW q, NEW P \in SUBSET Matching(k, p, q),
           NEW S \in SUBSET Matching(k, p, q), NEW T \in SUBSET Matching(k, p, q),
           Solid(S \cup T, k, p, q), Solid(P \cup S, k, p, q),
           Above(P, S), Behind(T, S)
    PROVE  Solid(P \cup (S \cup T), k, p, q) /\ Above(P, S \cup T)
<1>1. /\ \A r \in P \cup S \cup T : r = <<p, r[2]>> /\ r[2] \in Nat
      /\ Hits(k, p, q) \subseteq Nat
  <2>1. \A r \in P \cup S \cup T : r \in Matching(k, p, q)
    OBVIOUS
  <2>2. \A r \in Matching(k, p, q) : r = <<p, r[2]>> /\ r[2] \in Nat
    BY NumbersOf
  <2> QED BY <2>1, <2>2, HitsFinite
<1>2. ASSUME NEW r \in P, NEW u \in S \cup T
      PROVE  r[2] > u[2]
  <2>1. PICK w \in S : u[2] <= w[2]
    BY <1>1 DEF Behind
  <2>2. r[2] > w[2]
    BY DEF Above
  <2> QED BY <1>1, <2>1, <2>2
<1>3. ASSUME NEW n \in Hits(k, p, q), NEW a \in P \cup (S \cup T), a[2] <= n,
             NEW b \in P \cup (S \cup T), n <= b[2]
      PROVE  <<p, n>> \in P \cup (S \cup T)
  <2>1. PICK w \in P \cup S : n <= w[2]
    <3>1. CASE b \in P \cup S
      BY <1>3, <3>1
    <3>2. CASE b \in T
      BY <1>1, <1>3, <3>2 DEF Behind
    <3> QED BY <3>1, <3>2
  <2>2. CASE \E r \in P \cup S : r[2] <= n
    BY <2>1, <2>2 DEF Solid
  <2>3. CASE ~ \E r \in P \cup S : r[2] <= n
    <3>1. a \in T
      BY <1>3, <2>3
    <3>2. PICK u \in S : a[2] <= u[2]
      BY <3>1 DEF Behind
    <3>3. n <= u[2]
      BY <1>1, <2>3
    <3> QED BY <1>3, <3>1, <3>3 DEF Solid
  <2> QED BY <2>2, <2>3
<1> QED BY <1>2, <1>3 DEF Solid, Above

LEMMA PageAppended ==
    ASSUME NEW k \in Int, NEW p, NEW q, NEW d \in Nat, NEW c \in Nat \ {0},
           NEW s, NEW t, Listed(s, k, p, q), Reached(d, s, k, p, q), PageIs(t, d, c, k, p, q),
           Behind(RowsOf(t), RowsOf(s))
    PROVE  /\ Listed(s \o t, k, p, q)
           /\ \A e \in Nat : Reached(e, s, k, p, q) => Reached(e, s \o t, k, p, q)
           /\ Len(t) = c => Reached(d + c, s \o t, k, p, q)
<1>1. /\ s \in Seq(Matching(k, p, q)) /\ t \in Seq(Matching(k, p, q)) /\ Solid(RowsOf(s), k, p, q)
      /\ NewestFirst(s) /\ Len(t) <= c
      /\ \A i \in 1 .. Len(t) : Rank(k, p, q, t[i][2]) = d + i
      /\ \A n \in Hits(k, p, q) :
            d < Rank(k, p, q, n) /\ Rank(k, p, q, n) <= d + c
            => \E i \in 1 .. Len(t) : t[i] = <<p, n>>
  BY DEF Listed, PageIs
<1>2. /\ Len(s) \in Nat /\ RowsOf(s) \in SUBSET Matching(k, p, q)
      /\ \A i \in 1 .. Len(s) : s[i] \in RowsOf(s) /\ s[i][2] \in Nat
  BY <1>1, RowsIn
<1>3. /\ Len(t) \in Nat /\ RowsOf(t) = {t[i] : i \in 1 .. Len(t)}
      /\ RowsOf(t) \in SUBSET Matching(k, p, q)
      /\ \A i \in 1 .. Len(t) : t[i] \in RowsOf(t) /\ t[i][2] \in Nat
  BY <1>1, RowsIn
<1>4. PICK j \in 1 .. Len(s) : Rank(k, p, q, s[j][2]) >= d
  BY DEF Reached
<1>5. \A r \in RowsOf(t) : Rank(k, p, q, r[2]) <= d + c
  <2>1. \A i \in 1 .. Len(t) : Rank(k, p, q, t[i][2]) <= d + c
    BY <1>1, <1>3
  <2> QED BY <1>3, <2>1
<1>6. \A n \in Hits(k, p, q) :
         d < Rank(k, p, q, n) /\ Rank(k, p, q, n) <= d + c => <<p, n>> \in RowsOf(t)
  BY <1>1, <1>3
<1>7. Solid(RowsOf(s) \cup RowsOf(t), k, p, q)
  <2> DEFINE S == RowsOf(s)
             T == RowsOf(t)
  <2>1. S \in SUBSET Matching(k, p, q) /\ T \in SUBSET Matching(k, p, q) /\ Solid(S, k, p, q)
    BY <1>1, <1>2, <1>3
  <2>2. s[j] \in S /\ Behind(T, S)
    BY <1>2, <1>4
  <2>3. \A r \in T : Rank(k, p, q, r[2]) <= d + c
    BY <1>5
  <2>4. \A n \in Hits(k, p, q) :
           d < Rank(k, p, q, n) /\ Rank(k, p, q, n) <= d + c => <<p, n>> \in T
    BY <1>6
  <2> HIDE DEF S, T
  <2>5. Solid(S \cup T, k, p, q)
    BY <1>4, <2>1, <2>2, <2>3, <2>4, SolidPage
  <2> QED BY <2>5 DEF S, T
<1> DEFINE w == s \o t
<1>8. /\ w \in Seq(Matching(k, p, q)) /\ Len(w) = Len(s) + Len(t)
      /\ RowsOf(w) = RowsOf(s) \cup RowsOf(t)
      /\ \A i \in 1 .. Len(s) : w[i] = s[i]
      /\ \A i \in 1 .. Len(t) : w[Len(s) + i] = t[i]
  BY <1>1, RowsTogether
<1> HIDE DEF w
<1>9. Len(s) >= 1 /\ w[1] = s[1]
  BY <1>2, <1>4, <1>8
<1>10. \A u \in RowsOf(s) : u[2] <= s[1][2]
  <2>1. \A i \in 1 .. Len(s) : s[i][2] <= s[1][2]
    BY <1>1 DEF NewestFirst
  <2> QED BY <1>1, <2>1, RowOfIn
<1>11. NewestFirst(w)
  <2>1. ASSUME NEW i \in 1 .. Len(w)
        PROVE  w[i][2] <= w[1][2]
    <3>1. w[i] \in RowsOf(s) \cup RowsOf(t)
      BY <1>8, RowsIn
    <3>2. CASE w[i] \in RowsOf(s)
      BY <1>9, <1>10, <3>2
    <3>3. CASE w[i] \in RowsOf(t)
      <4>1. PICK u \in RowsOf(s) : w[i][2] <= u[2]
        BY <3>3 DEF Behind
      <4>2. u[2] <= s[1][2]
        BY <1>10
      <4>3. w[i][2] \in Nat /\ u[2] \in Nat /\ s[1][2] \in Nat
        BY <1>2, <1>3, <1>9, <3>3, NumbersOf
      <4> QED BY <1>9, <4>1, <4>2, <4>3
    <3> QED BY <3>1, <3>2, <3>3
  <2> QED BY <2>1 DEF NewestFirst
<1>12. Listed(w, k, p, q)
  BY <1>7, <1>8, <1>11 DEF Listed
<1>13. ASSUME NEW e \in Nat, Reached(e, s, k, p, q)
       PROVE  Reached(e, w, k, p, q)
  <2>1. PICK i \in 1 .. Len(s) : Rank(k, p, q, s[i][2]) >= e
    BY <1>13 DEF Reached
  <2>2. i \in 1 .. Len(w)
    BY <1>2, <1>3, <1>8
  <2>3. w[i] = s[i]
    BY <1>8
  <2> QED BY <2>1, <2>2, <2>3 DEF Reached
<1>14. ASSUME Len(t) = c
       PROVE  Reached(d + c, w, k, p, q)
  <2>1. c \in 1 .. Len(t) /\ Len(s) + c \in 1 .. Len(w)
    BY <1>2, <1>3, <1>8, <1>14
  <2>2. w[Len(s) + c] = t[c] /\ Rank(k, p, q, t[c][2]) = d + c
    BY <1>1, <1>8, <2>1
  <2> QED BY <2>1, <2>2 DEF Reached
<1> QED BY <1>12, <1>13, <1>14 DEF w

LEMMA PageBehind ==
    ASSUME NEW k \in Int, NEW p, NEW q, NEW s, NEW t, NEW v,
           s \in Seq(Matching(k, p, q)), t \in Seq(Matching(k, p, q)), Listed(s \o t, k, p, q),
           GoesBefore(v, s, k, p, q),
           Behind(RowsOf(t), RowsOf(s))
    PROVE  GoesBefore(v, s \o t, k, p, q)
<1> DEFINE P == RowsOf(v)
           S == RowsOf(s)
           T == RowsOf(t)
<1>1. v \in Seq(Matching(k, p, q)) /\ NewestFirst(v) /\ RowsOf(s \o t) = S \cup T
  BY RowsTogether DEF GoesBefore
<1>2. /\ P \in SUBSET Matching(k, p, q)
      /\ {S, T} \subseteq SUBSET Matching(k, p, q)
      /\ Solid(P \cup S, k, p, q) /\ Solid(S \cup T, k, p, q)
      /\ Above(P, S) /\ Behind(T, S)
  BY <1>1, RowsIn DEF GoesBefore, Listed
<1> HIDE DEF P, S, T
<1>3. Solid(P \cup (S \cup T), k, p, q) /\ Above(P, S \cup T)
  BY <1>2, SolidBehind
<1>4. /\ Above(P, RowsOf(s \o t))
      /\ Solid(P \cup RowsOf(s \o t), k, p, q)
  BY <1>1, <1>3
<1> QED BY <1>1, <1>4 DEF GoesBefore, P

LEMMA PendingMerged ==
    ASSUME NEW k \in Int, NEW p, NEW q, NEW s, NEW v,
           Listed(s, k, p, q), GoesBefore(v, s, k, p, q), v # <<>>
    PROVE  /\ Listed(v \o s, k, p, q)
           /\ \A e \in Nat : Reached(e, s, k, p, q) => Reached(e, v \o s, k, p, q)
           /\ v \o s # <<>>
<1>1. /\ s \in Seq(Matching(k, p, q)) /\ v \in Seq(Matching(k, p, q)) /\ NewestFirst(v)
      /\ Above(RowsOf(v), RowsOf(s))
      /\ Solid(RowsOf(v) \cup RowsOf(s), k, p, q)
  BY DEF Listed, GoesBefore
<1>2. Len(s) \in Nat /\ Len(v) \in Nat \ {0}
  BY <1>1, EmptySeq, LenProperties
<1> DEFINE w == v \o s
<1>3. /\ w \in Seq(Matching(k, p, q)) /\ Len(w) = Len(v) + Len(s)
      /\ RowsOf(w) = RowsOf(v) \cup RowsOf(s)
      /\ \A i \in 1 .. Len(v) : w[i] = v[i]
      /\ \A i \in 1 .. Len(s) : w[Len(v) + i] = s[i]
  BY <1>1, RowsTogether
<1> HIDE DEF w
<1>4. w[1] = v[1] /\ v[1] \in RowsOf(v) /\ Len(w) # 0
  BY <1>1, <1>2, <1>3, RowsIn
<1>5. NewestFirst(w)
  <2>1. ASSUME NEW i \in 1 .. Len(w)
        PROVE  w[i][2] <= w[1][2]
    <3>1. w[i] \in RowsOf(v) \cup RowsOf(s)
      BY <1>3, RowsIn
    <3>2. CASE w[i] \in RowsOf(v)
      <4>1. PICK j \in 1 .. Len(v) : w[i] = v[j]
        BY <1>1, <3>2, RowOfIn
      <4> QED BY <1>1, <1>4, <4>1 DEF NewestFirst
    <3>3. CASE w[i] \in RowsOf(s)
      <4>1. v[1][2] > w[i][2] /\ w[i][2] \in Nat /\ v[1][2] \in Nat
        BY <1>1, <1>4, <3>3, RowOfIn, NumbersOf DEF Above
      <4> QED BY <1>4, <4>1
    <3> QED BY <3>1, <3>2, <3>3
  <2> QED BY <2>1 DEF NewestFirst
<1>6. Listed(w, k, p, q)
  BY <1>1, <1>3, <1>5 DEF Listed
<1>7. ASSUME NEW e \in Nat, Reached(e, s, k, p, q)
      PROVE  Reached(e, w, k, p, q)
  <2>1. PICK i \in 1 .. Len(s) : Rank(k, p, q, s[i][2]) >= e
    BY <1>7 DEF Reached
  <2>2. Len(v) + i \in 1 .. Len(w) /\ w[Len(v) + i] = s[i]
    BY <1>2, <1>3
  <2> QED BY <2>1, <2>2 DEF Reached
<1>8. w # <<>>
  BY <1>4, EmptySeq
<1> QED BY <1>6, <1>7, <1>8 DEF w

LEMMA LeastNumber ==
    ASSUME NEW S \in SUBSET Nat, S # {}
    PROVE  Min(S) \in S /\ \A x \in S : Min(S) <= x
<1>1. PICK x \in S : \A y \in S : ~(<<y, x>> \in OpToRel(<, Nat))
  BY WFMin, NatLessThanWellFounded
<1>2. \A y \in S : x <= y
  <2> SUFFICES ASSUME NEW y \in S PROVE x <= y
    OBVIOUS
  <2>1. ~(y < x)
    BY <1>1 DEF OpToRel
  <2> QED BY <2>1
<1> QED BY <1>2 DEF Min

\* The rows of a tick that are before the first one near the head of the list continue
\* the list, unless the page is full and none of it is near the head.
LEMMA DiffContinues ==
    ASSUME NEW n \in Int, NEW k \in Int, n <= k, NEW p, NEW q, NEW f, NEW s,
           FirstPage(f, n, p, q), Listed(s, k, p, q), s # <<>>,
           \A i \in 1 .. Len(s) : s[i][2] <= n,
           ComputeNewQueryLogs(f, s).overlap \/ Len(f) # First
    PROVE  /\ GoesBefore(ComputeNewQueryLogs(f, s).rows, s, k, p, q)
           /\ \A r \in RowsOf(ComputeNewQueryLogs(f, s).rows) : r[2] <= n
<1> DEFINE known == {LogIdentity(s[i]) : i \in 1 .. Min({Window, Len(s)})}
           met == {i \in DOMAIN f : LogIdentity(f[i]) \in known}
           v == ComputeNewQueryLogs(f, s).rows
<1>1. /\ f \in Seq(Matching(n, p, q)) /\ Len(f) <= First /\ First \in Nat
      /\ \A i, j \in 1 .. Len(f) : i < j => f[i][2] > f[j][2]
      /\ \A m \in Hits(n, p, q) :
            (Len(f) < First \/ \E i \in 1 .. Len(f) : f[i][2] <= m)
            => \E i \in 1 .. Len(f) : f[i] = <<p, m>>
  BY PageLimits DEF FirstPage
<1>2. /\ Len(f) \in Nat /\ DOMAIN f = 1 .. Len(f) /\ f \in Seq(Matching(k, p, q))
      /\ \A i \in 1 .. Len(f) : /\ f[i] = <<p, f[i][2]>> /\ f[i] \in Matching(k, p, q)
                                /\ f[i][2] \in Hits(n, p, q) /\ f[i][2] \in 1 .. n
  BY <1>1, RowsIn, OwnGrows, ElementOfSeq
<1>3. s \in Seq(Matching(k, p, q)) /\ Solid(RowsOf(s), k, p, q) /\ NewestFirst(s)
  BY DEF Listed
<1>4. /\ Len(s) \in Nat \ {0} /\ RowsOf(s) = {s[i] : i \in 1 .. Len(s)}
      /\ \A i \in 1 .. Len(s) : /\ s[i] = <<p, s[i][2]>> /\ s[i] \in RowsOf(s)
                                /\ s[i][2] \in Hits(k, p, q) /\ s[i][2] \in 1 .. k
  BY <1>3, RowsIn, EmptySeq
<1> DEFINE m == s[1][2]
<1>5. /\ m \in Hits(n, p, q) /\ m \in Nat /\ s[1] = <<p, m>>
      /\ \A i \in 1 .. Len(s) : s[i][2] <= m
  <2>1. 1 \in 1 .. Len(s)
    BY <1>4
  <2>2. m \in Hits(n, p, q)
    BY <1>4, <2>1, OwnGrows
  <2> QED BY <1>3, <1>4, <2>1, <2>2 DEF NewestFirst
<1>6. s[1] \in known /\ \A x \in known : \E i \in 1 .. Len(s) : x = s[i]
  <2>1. Window \in Nat \ {0} /\ Min({Window, Len(s)}) = IF Window <= Len(s) THEN Window ELSE Len(s)
    BY <1>4, MinOfPair, PageLimits
  <2> DEFINE b == Min({Window, Len(s)})
  <2>2. b \in Nat \ {0} /\ b <= Len(s)
    BY <1>4, <2>1
  <2> HIDE DEF b
  <2>3. 1 \in 1 .. b /\ 1 .. b \subseteq 1 .. Len(s)
    BY <1>4, <2>2
  <2>4. known = {s[i] : i \in 1 .. b}
    BY DEF LogIdentity, b
  <2> HIDE DEF known
  <2> QED BY <2>3, <2>4
<1> HIDE DEF known, m
<1>7. met = {i \in 1 .. Len(f) : f[i] \in known}
  BY <1>2 DEF LogIdentity
<1>8. /\ ComputeNewQueryLogs(f, s).overlap <=> met # {}
      /\ v = IF met = {} THEN f ELSE SubSeq(f, 1, Min(met) - 1)
  BY DEF ComputeNewQueryLogs, known
<1> HIDE DEF met, v
\* The newest row of the list is in the answer.
<1>9. (\E i \in 1 .. Len(f) : f[i][2] <= m) \/ Len(f) < First
  <2>1. CASE met # {}
    <3>1. PICK i \in 1 .. Len(f) : f[i] \in known
      BY <1>7, <2>1
    <3>2. PICK j \in 1 .. Len(s) : f[i] = s[j]
      BY <1>6, <3>1
    <3> QED BY <1>5, <3>2
  <2>2. CASE met = {}
    <3>1. Len(f) # First
      BY <1>8, <2>2
    <3>2. Len(f) \in Nat /\ First \in Nat /\ Len(f) <= First
      BY <1>1, <1>2
    <3>3. Len(f) < First
      BY ONLY <3>1, <3>2
    <3> QED BY <3>3
  <2> QED BY <2>1, <2>2
<1>10. PICK h \in 1 .. Len(f) : f[h] = <<p, m>>
  BY <1>1, <1>5, <1>9
<1>11. h \in met
  BY <1>5, <1>6, <1>7, <1>10
<1> DEFINE j == Min(met)
<1>12. j \in met /\ j \in 1 .. Len(f) /\ j <= h /\ f[j] \in known
  <2>1. met \in SUBSET Nat
    BY <1>7
  <2> QED BY <1>7, <1>11, <2>1, LeastNumber
<1> HIDE DEF j
<1>13. f[j][2] = m
  <2>1. f[j][2] <= m
    BY <1>5, <1>6, <1>12
  <2>2. j = h \/ f[j][2] > f[h][2]
    BY <1>1, <1>12
  <2>3. f[h][2] = m /\ f[j][2] \in Int
    BY <1>2, <1>10, <1>12
  <2> QED BY <1>5, <2>1, <2>2, <2>3
<1>14. /\ v \in Seq(Matching(k, p, q)) /\ Len(v) = j - 1
       /\ \A i \in 1 .. j - 1 : v[i] = f[i] /\ i \in 1 .. Len(f) /\ i < j
  <2>1. v = SubSeq(f, 1, j - 1)
    BY <1>8, <1>11 DEF j
  <2>2. j - 1 \in Int /\ \A i \in 1 .. j - 1 : i \in 1 .. Len(f) /\ i < j
    BY <1>2, <1>12
  <2>3. \A i \in 1 .. j - 1 : f[i] \in Matching(k, p, q)
    BY <1>2, <2>2
  <2>4. /\ SubSeq(f, 1, j - 1) \in Seq(Matching(k, p, q))
        /\ Len(SubSeq(f, 1, j - 1)) = IF 1 <= j - 1 THEN (j - 1) - 1 + 1 ELSE 0
        /\ \A i \in 1 .. (j - 1) - 1 + 1 : SubSeq(f, 1, j - 1)[i] = f[1 + i - 1]
    BY <2>2, <2>3, SubSeqProperties
  <2>5. \A i \in 1 .. j - 1 : i \in 1 .. (j - 1) - 1 + 1 /\ 1 + i - 1 = i
    BY <2>2
  <2>6. (IF 1 <= j - 1 THEN (j - 1) - 1 + 1 ELSE 0) = j - 1
    BY <1>2, <1>12
  <2> QED BY <2>1, <2>2, <2>4, <2>5, <2>6
<1>15. RowsOf(v) = {f[i] : i \in 1 .. j - 1}
  BY <1>14, RowsIn
<1>16. NewestFirst(v)
  <2>1. ASSUME NEW i \in 1 .. Len(v)
        PROVE  v[i][2] <= v[1][2]
    <3>1. i \in 1 .. j - 1 /\ 1 \in 1 .. j - 1 /\ v[i] = f[i] /\ v[1] = f[1]
      BY <1>14, <1>2, <1>12
    <3>2. i = 1 \/ f[1][2] > f[i][2]
      BY <1>1, <1>14, <3>1
    <3>3. f[1][2] \in Int /\ f[i][2] \in Int
      BY <1>2, <1>14, <3>1
    <3> QED BY <3>1, <3>2, <3>3
  <2> QED BY <2>1 DEF NewestFirst
<1>17. ASSUME NEW i \in 1 .. j - 1
       PROVE  f[i][2] > m /\ f[i][2] <= n /\ f[i][2] \in Int
  <2>1. i \in 1 .. Len(f) /\ i < j
    BY <1>14
  <2>2. f[i][2] > f[j][2]
    BY <1>1, <1>12, <2>1
  <2>3. f[i][2] \in 1 .. n
    BY <1>2, <2>1
  <2> QED BY <1>13, <2>2, <2>3
<1>18. Above(RowsOf(v), RowsOf(s))
  <2>1. ASSUME NEW i \in 1 .. j - 1, NEW a \in 1 .. Len(s)
        PROVE  f[i][2] > s[a][2]
    <3>1. f[i][2] > m /\ f[i][2] \in Int
      BY <1>17
    <3>2. s[a][2] <= m /\ s[a][2] \in Int
      BY <1>4, <1>5
    <3> QED BY <1>5, <3>1, <3>2
  <2> QED BY <1>4, <1>15, <2>1 DEF Above
<1>19. Solid(RowsOf(v) \cup RowsOf(s), k, p, q)
  <2>1. ASSUME NEW y \in Hits(k, p, q), NEW a \in RowsOf(v) \cup RowsOf(s), a[2] <= y,
               NEW b \in RowsOf(v) \cup RowsOf(s), y <= b[2]
        PROVE  <<p, y>> \in RowsOf(v) \cup RowsOf(s)
    <3>0. y \in Nat
      BY HitsFinite
    <3>1. CASE y <= m
      <4>1. a \in RowsOf(s)
        <5>1. a[2] <= m /\ \A i \in 1 .. j - 1 : f[i][2] # a[2]
          BY <1>15, <1>17, <1>4, <1>5, <2>1, <3>0, <3>1
        <5> QED BY <1>15, <2>1, <5>1
      <4>2. s[1] \in RowsOf(s) /\ y <= s[1][2]
        BY <1>4, <3>1 DEF m
      <4> QED BY <1>3, <2>1, <4>1, <4>2 DEF Solid
    <3>2. CASE ~(y <= m)
      <4>1. PICK i \in 1 .. j - 1 : b = f[i]
        BY <1>4, <1>5, <1>15, <2>1, <3>0, <3>2
      <4>2. y \in Hits(n, p, q)
        BY <1>17, <2>1, <3>0, <4>1, OwnGrows
      <4>3. PICK c \in 1 .. Len(f) : f[c] = <<p, y>>
        <5>1. f[j][2] <= y
          BY <1>5, <1>13, <3>0, <3>2
        <5> QED BY <1>1, <1>12, <4>2, <5>1
      <4>4. ~(j < c) /\ j # c
        BY <1>1, <1>5, <1>12, <1>13, <3>0, <3>2, <4>3
      <4>5. c \in 1 .. j - 1
        BY <1>2, <1>12, <4>4
      <4> QED BY <1>15, <4>3, <4>5
    <3> QED BY <3>1, <3>2
  <2> QED BY <2>1 DEF Solid
<1>20. GoesBefore(v, s, k, p, q)
  BY <1>14, <1>16, <1>18, <1>19 DEF GoesBefore
<1>21. \A r \in RowsOf(v) : r[2] <= n
  BY <1>15, <1>17
<1> QED BY <1>20, <1>21 DEF v

\* Nothing is read that was not there, and pages are asked for one after the other.
LEMMA HeldKept ==
    ASSUME NEW k \in Int, NEW p, NEW q, NEW v, NEW w, NEW l \in BOOLEAN, NEW m \in BOOLEAN,
           Held(v, l, k, p, q), v.page \in Nat \ {0}, w.logs = v.logs,
           w.pending = <<>> \/ (w.pending = v.pending /\ w.overflow = v.overflow),
           \/ w.page = 1
           \/ w.page = v.page
           \/ w.page = v.page + 1 /\ ~l /\ v.hasMore /\ v.logs # <<>>,
           ~m /\ w.hasMore => ~l /\ v.hasMore /\ w.page = v.page
    PROVE  Held(w, m, k, p, q)
<1>1. w.logs = <<>> => w.page = 1 /\ w.pending = <<>>
  BY DEF Held
<1>2. w.page > 1 => Reached(Offset(w.page), w.logs, k, p, q)
  BY DEF Held
<1>3. ~m /\ w.hasMore /\ w.logs # <<>> => Reached(Offset(w.page + 1), w.logs, k, p, q)
  BY DEF Held
<1>4. w.pending # <<>> /\ ~w.overflow => GoesBefore(w.pending, w.logs, k, p, q)
  BY DEF Held
<1>5. Listed(w.logs, k, p, q)
  BY DEF Held
<1> QED BY <1>1, <1>2, <1>3, <1>4, <1>5 DEF Held

LEMMA SolidGrows ==
    ASSUME NEW k \in Int, NEW p, NEW q, NEW S \in SUBSET Matching(k, p, q), Solid(S, k, p, q)
    PROVE  Solid(S, k + 1, p, q)
<1>1. ASSUME NEW n \in Hits(k + 1, p, q), NEW a \in S, a[2] <= n, NEW b \in S, n <= b[2]
      PROVE  <<p, n>> \in S
  <2>1. b[2] \in 1 .. k
    BY OwnRow
  <2>2. n \in Hits(k, p, q)
    BY <1>1, <2>1 DEF Hits
  <2> QED BY <1>1, <2>2 DEF Solid
<1> QED BY <1>1 DEF Solid

LEMMA HeldGrows ==
    ASSUME NEW k \in Int, NEW p, NEW q, NEW v, NEW l \in BOOLEAN,
           Held(v, l, k, p, q), v.page \in Nat \ {0}
    PROVE  Held(v, l, k + 1, p, q)
<1>0. k + 1 \in Int /\ k <= k + 1
  OBVIOUS
<1>1. \A s \in Seq(Matching(k, p, q)) : s \in Seq(Matching(k + 1, p, q))
  BY <1>0, OwnGrows
<1>2. ASSUME NEW s, Listed(s, k, p, q)
      PROVE  Listed(s, k + 1, p, q)
  <2>1. s \in Seq(Matching(k, p, q)) /\ Solid(RowsOf(s), k, p, q) /\ NewestFirst(s)
    BY <1>2 DEF Listed
  <2>2. RowsOf(s) \in SUBSET Matching(k, p, q)
    BY <2>1, RowsIn
  <2> QED BY <1>1, <2>1, <2>2, SolidGrows DEF Listed
<1>3. ASSUME NEW s, NEW t, t \in Seq(Matching(k, p, q)), GoesBefore(s, t, k, p, q)
      PROVE  GoesBefore(s, t, k + 1, p, q)
  <2>1. /\ s \in Seq(Matching(k, p, q)) /\ NewestFirst(s) /\ Above(RowsOf(s), RowsOf(t))
        /\ Solid(RowsOf(s) \cup RowsOf(t), k, p, q)
    BY <1>3 DEF GoesBefore
  <2>2. RowsOf(s) \subseteq Matching(k, p, q) /\ RowsOf(t) \subseteq Matching(k, p, q)
    BY <1>3, <2>1, RowsIn
  <2> DEFINE U == RowsOf(s) \cup RowsOf(t)
  <2>3. U \in SUBSET Matching(k, p, q) /\ Solid(U, k, p, q)
    BY <2>1, <2>2
  <2> HIDE DEF U
  <2>4. Solid(U, k + 1, p, q)
    BY <2>3, SolidGrows
  <2> QED BY <1>1, <2>1, <2>4 DEF GoesBefore, U
<1>4. ASSUME NEW d \in Nat, NEW s, Reached(d, s, k, p, q)
      PROVE  Reached(d, s, k + 1, p, q)
  <2>1. PICK i \in 1 .. Len(s) : Rank(k, p, q, s[i][2]) >= d
    BY <1>4 DEF Reached
  <2>2. Rank(k, p, q, s[i][2]) <= Rank(k + 1, p, q, s[i][2])
    BY <1>0, RankGrows
  <2>3. Rank(k, p, q, s[i][2]) \in Nat /\ Rank(k + 1, p, q, s[i][2]) \in Nat
    BY <1>0, HitsFinite
  <2>4. Rank(k + 1, p, q, s[i][2]) >= d
    BY <2>1, <2>2, <2>3
  <2> QED BY <2>4 DEF Reached
<1>5. Offset(v.page) \in Nat /\ Offset(v.page + 1) \in Nat
  BY PageStarts
<1>6. /\ Listed(v.logs, k, p, q) /\ (v.logs = <<>> => v.page = 1 /\ v.pending = <<>>)
      /\ v.logs \in Seq(Matching(k, p, q))
  BY DEF Held, Listed
<1>7. v.page > 1 => Reached(Offset(v.page), v.logs, k + 1, p, q)
  BY <1>4, <1>5 DEF Held
<1>8. ~l /\ v.hasMore /\ v.logs # <<>> => Reached(Offset(v.page + 1), v.logs, k + 1, p, q)
  BY <1>4, <1>5 DEF Held
<1>9. v.pending # <<>> /\ ~v.overflow => GoesBefore(v.pending, v.logs, k + 1, p, q)
  BY <1>3, <1>6 DEF Held
<1> QED BY <1>2, <1>6, <1>7, <1>8, <1>9 DEF Held
-----------------------------------------------------------------------------
(* What the steps do *)

LEMMA NothingListed ==
    ASSUME NEW k \in Int, NEW p, NEW q
    PROVE  Listed(<<>>, k, p, q)
<1>1. <<>> \in Seq(Matching(k, p, q)) /\ Len(<<>>) = 0 /\ RowsOf(<<>>) = {}
  BY EmptySeq DEF RowsOf
<1> QED BY <1>1 DEF Listed, Solid, NewestFirst

LEMMA LogsInit == Init => LogsInv
<1> SUFFICES ASSUME Init PROVE LogsInv
  OBVIOUS
<1>1. /\ activePid = Mounted /\ listing = NewView /\ query = DefaultQuery
      /\ fetch = Request(1, activePid, query) /\ tick = Null /\ submit = Null /\ mixed = FALSE
      /\ arrived = [p \in ProfilesOf |-> Len(Logged[p]) - MaxArrivals]
  BY DEF Init
<1>2. activePid \in ProfilesOf /\ arrived \in [ProfilesOf -> Int]
  BY <1>1, RowsNumbered, PageLimits DEF ProfilesOf
<1>3. LogsShape
  <2>1. /\ DOMAIN listing = ListingFields /\ listing.page = 1 /\ listing.pending = <<>>
        /\ listing.hasMore \in BOOLEAN /\ listing.overflow \in BOOLEAN
    BY <1>1 DEF NewView, ListingFields
  <2>2. 1 \in Nat \ {0}
    OBVIOUS
  <2> QED BY <1>1, <1>2, <2>1, <2>2 DEF LogsShape
<1> DEFINE k == arrived[activePid]
<1>4. k \in Int
  BY <1>2
<1> HIDE DEF k
<1>5. Listed(<<>>, k, activePid, query)
  BY <1>4, NothingListed
<1>6. Held(listing, Loading, k, activePid, query)
  BY <1>1, <1>5 DEF Held, NewView
<1>7. TickSound
  BY <1>1 DEF TickSound
<1> QED BY <1>3, <1>6, <1>7 DEF LogsInv, LogsHeld, k

\* A step that leaves the list alone and keeps, ends or starts a tick.
LEMMA LogsQuiet ==
    ASSUME LogsInv,
           UNCHANGED <<activePid, listing, query, fetch, arrived, mixed>>,
           submit' # Null => submit'.profile \in ProfilesOf,
           \/ tick' \in {tick, Null}
           \/ /\ query.sort = "created"
              /\ tick' = [profile |-> activePid, query |-> query, rows |-> Null, late |-> FALSE]
    PROVE  LogsInv'
<1>1. LogsShape'
  <2>1. LogsShape
    BY DEF LogsInv
  <2>2. tick' # Null => /\ DOMAIN tick' = TickFields /\ tick'.profile \in ProfilesOf
                        /\ tick'.late \in BOOLEAN /\ tick'.query.sort = "created"
    <3>1. CASE tick' \in {tick, Null}
      BY <2>1, <3>1 DEF LogsShape
    <3>2. CASE /\ query.sort = "created"
               /\ tick' = [profile |-> activePid, query |-> query, rows |-> Null, late |-> FALSE]
      BY <2>1, <3>2 DEF LogsShape, TickFields
    <3> QED BY <3>1, <3>2
  <2> QED BY <2>1, <2>2 DEF LogsShape, ProfilesOf
<1>2. LogsHeld'
  BY DEF LogsInv, LogsHeld, Single, Loading
<1>3. TickSound'
  <2> SUFFICES ASSUME tick' # Null, tick'.rows # Null
               PROVE  \E n \in Int : TickRead(tick, n)'
    BY DEF TickSound
  <2>1. tick' = tick
    OBVIOUS
  <2>2. PICK n \in Int : TickRead(tick, n)
    BY <2>1 DEF LogsInv, TickSound
  <2> QED BY <2>1, <2>2 DEF TickRead, Single
<1> QED BY <1>1, <1>2, <1>3 DEF LogsInv

\* A step that changes which page is asked for, or drops the staged rows.
LEMMA LogsRead ==
    ASSUME LogsInv,
           UNCHANGED <<activePid, query, tick, arrived, mixed>>,
           submit' # Null => submit'.profile \in ProfilesOf,
           DOMAIN listing' = ListingFields, listing'.hasMore \in BOOLEAN,
           listing'.overflow \in BOOLEAN,
           listing'.logs = listing.logs,
           \/ listing'.pending = <<>>
           \/ listing'.pending = listing.pending /\ listing'.overflow = listing.overflow,
           \/ listing'.page = 1
           \/ listing'.page = listing.page
           \/ /\ listing'.page = listing.page + 1
              /\ ~Loading /\ listing.hasMore /\ listing.logs # <<>>,
           ~Loading' /\ listing'.hasMore =>
              ~Loading /\ listing.hasMore /\ listing'.page = listing.page,
           fetch' # Null => fetch' = Request(listing'.page, activePid, query)
    PROVE  LogsInv'
<1>0. LogsShape /\ LogsHeld /\ TickSound
  BY DEF LogsInv
<1>1. listing.page \in Nat \ {0} /\ listing'.page \in Nat \ {0}
  BY <1>0 DEF LogsShape
<1>2. LogsShape'
  BY <1>0, <1>1 DEF LogsShape, ProfilesOf
<1>3. LogsHeld'
  <2> SUFFICES ASSUME Single PROVE Held(listing', Loading', arrived[activePid], activePid, query)
    BY DEF LogsHeld, Single
  <2>1. Held(listing, Loading, arrived[activePid], activePid, query)
    BY <1>0 DEF LogsHeld
  <2>2. arrived[activePid] \in Int /\ Loading \in BOOLEAN /\ Loading' \in BOOLEAN
    BY <1>0 DEF LogsShape, Loading
  <2> QED BY <1>1, <2>1, <2>2, HeldKept
<1>4. TickSound'
  <2> SUFFICES ASSUME tick # Null, tick.rows # Null
               PROVE  \E n \in Int : TickRead(tick, n)'
    BY DEF TickSound
  <2>1. PICK n \in Int : TickRead(tick, n)
    BY <1>0 DEF TickSound
  <2>2. NotNewerThan(listing, n) => NotNewerThan(listing', n)
    BY DEF NotNewerThan
  <2> QED BY <2>1, <2>2 DEF TickRead, Single
<1> QED BY <1>2, <1>3, <1>4 DEF LogsInv

\* From here on the list is not of one reading.
LEMMA LogsMixed ==
    ASSUME LogsInv, mixed', UNCHANGED <<query, tick, arrived>>, mixed' \in BOOLEAN,
           submit' # Null => submit'.profile \in ProfilesOf,
           activePid' \in ProfilesOf,
           DOMAIN listing' = ListingFields, listing'.page = listing.page,
           listing'.hasMore \in BOOLEAN, listing'.overflow \in BOOLEAN,
           fetch' # Null => fetch' = Request(listing'.page, activePid', query)
    PROVE  LogsInv'
<1>0. LogsShape /\ TickSound
  BY DEF LogsInv
<1>1. LogsShape'
  BY <1>0 DEF LogsShape, ProfilesOf
<1>2. LogsHeld'
  BY DEF LogsHeld, Single
<1>3. TickSound'
  <2> SUFFICES ASSUME tick # Null, tick.rows # Null
               PROVE  \E n \in Int : TickRead(tick, n)'
    BY DEF TickSound
  <2>1. PICK n \in Int : TickRead(tick, n)
    BY <1>0 DEF TickSound
  <2> QED BY <2>1 DEF TickRead, Single
<1> QED BY <1>1, <1>2, <1>3 DEF LogsInv


\* Other filters: the list is read anew.
LEMMA LogsFiltered ==
    ASSUME NullHasNoPage, LogsInv, UNCHANGED <<activePid, tick, arrived, submit>>,
           Fetch(NewView, activePid, query'), mixed' = FALSE
    PROVE  LogsInv'
<1>0. LogsShape /\ TickSound
  BY DEF LogsInv
<1>1. /\ DOMAIN listing' = ListingFields /\ listing'.logs = <<>> /\ listing'.page = 1
      /\ listing'.hasMore \in BOOLEAN /\ listing'.overflow \in BOOLEAN
      /\ listing'.pending = <<>>
      /\ fetch' = Request(listing'.page, activePid, query')
  BY DEF Fetch, NewView, ListingFields
<1>2. 1 \in Nat \ {0}
  OBVIOUS
<1>3. LogsShape'
  BY <1>0, <1>1, <1>2 DEF LogsShape, ProfilesOf
<1>4. LogsHeld'
  <2>1. arrived[activePid] \in Int
    BY <1>0 DEF LogsShape
  <2>2. Listed(<<>>, arrived[activePid], activePid, query')
    BY <2>1, NothingListed
  <2>3. Held(listing', Loading', arrived[activePid], activePid, query')
    BY <1>1, <2>2 DEF Held
  <2> QED BY <2>3 DEF LogsHeld
<1>5. TickSound'
  <2> SUFFICES ASSUME tick # Null, tick.rows # Null
               PROVE  \E n \in Int : TickRead(tick, n)'
    BY DEF TickSound
  <2>1. PICK n \in Int : TickRead(tick, n)
    BY <1>0 DEF TickSound
  <2>2. NotNewerThan(listing', n)
    BY <1>1, EmptySeq DEF NotNewerThan
  <2> QED BY <2>1, <2>2 DEF TickRead
<1> QED BY <1>3, <1>4, <1>5 DEF LogsInv

LEMMA LogsArrive == ASSUME LogsInv, Arrive PROVE LogsInv'
<1>0. LogsShape /\ LogsHeld /\ TickSound
  BY DEF LogsInv
<1>1. /\ UNCHANGED <<activePid, listing, query, fetch, mixed, tick, submit>>
      /\ arrived' = [arrived EXCEPT ![activePid] = @ + 1]
  BY DEF Arrive, listVars, sheetVars
<1>2. /\ activePid \in ProfilesOf /\ arrived \in [ProfilesOf -> Int]
      /\ arrived' \in [ProfilesOf -> Int] /\ arrived'[activePid] = arrived[activePid] + 1
      /\ \A p \in ProfilesOf : arrived'[p] \in Int /\ arrived[p] <= arrived'[p]
  BY <1>0, <1>1 DEF LogsShape
<1>3. LogsShape'
  BY <1>0, <1>1, <1>2 DEF LogsShape, ProfilesOf
<1>4. LogsHeld'
  <2> SUFFICES ASSUME Single
               PROVE  Held(listing, Loading, arrived[activePid] + 1, activePid, query)
    BY <1>1, <1>2 DEF LogsHeld, Single, Loading
  <2>1. Held(listing, Loading, arrived[activePid], activePid, query)
    BY <1>0 DEF LogsHeld
  <2>2. arrived[activePid] \in Int /\ Loading \in BOOLEAN /\ listing.page \in Nat \ {0}
    BY <1>0, <1>2 DEF LogsShape, Loading
  <2> QED BY <2>1, <2>2, HeldGrows
<1>5. TickSound'
  <2> SUFFICES ASSUME tick # Null, tick.rows # Null
               PROVE  \E n \in Int : TickRead(tick, n)'
    BY <1>1 DEF TickSound
  <2>1. PICK n \in Int : TickRead(tick, n)
    BY <1>0 DEF TickSound
  <2> DEFINE p == tick.profile
             k == arrived[p]
             l == arrived'[p]
  <2>2. k \in Int /\ l \in Int /\ k <= l
    BY <1>0, <1>2 DEF LogsShape
  <2>3. n <= l
    BY <2>1, <2>2 DEF TickRead
  <2>4. Reached(First, tick.rows, k, p, tick.query) => Reached(First, tick.rows, l, p, tick.query)
    <3> SUFFICES ASSUME NEW i \in 1 .. Len(tick.rows),
                        Rank(k, p, tick.query, tick.rows[i][2]) >= First
                 PROVE  Rank(l, p, tick.query, tick.rows[i][2]) >= First
      BY DEF Reached
    <3> HIDE DEF k, l, p
    <3>1. Rank(k, p, tick.query, tick.rows[i][2]) <= Rank(l, p, tick.query, tick.rows[i][2])
      BY <2>2, RankGrows
    <3>2. /\ Rank(k, p, tick.query, tick.rows[i][2]) \in Nat
          /\ Rank(l, p, tick.query, tick.rows[i][2]) \in Nat /\ First \in Nat
      BY <2>2, HitsFinite, PageLimits
    <3> QED BY <3>1, <3>2
  <2>5. TickRead(tick, n)'
    BY <1>1, <2>1, <2>3, <2>4 DEF TickRead, Single
  <2> QED BY <2>5
<1> QED BY <1>3, <1>4, <1>5 DEF LogsInv

LEMMA PageRange ==
    ASSUME NEW s, NEW k \in Int, NEW p, NEW q, s \in Seq(Matching(k, p, q))
    PROVE  \A i \in 1 .. Len(s) : s[i][2] <= k
<1>1. \A i \in 1 .. Len(s) : s[i][2] \in 1 .. k
  BY RowsIn
<1> QED BY <1>1

LEMMA LogsServed == ASSUME LogsInv, ServeTick PROVE LogsInv'
<1>0. LogsShape /\ LogsHeld /\ TickSound
  BY DEF LogsInv
<1>1. /\ UNCHANGED <<activePid, listing, query, fetch, mixed, arrived, submit>>
      /\ tick # Null
      /\ tick' = [tick EXCEPT !.rows = PageRows(Request(1, tick.profile, tick.query))]
  BY DEF ServeTick, listVars, sheetVars
<1> DEFINE p == tick.profile
           q == tick.query
           k == arrived[p]
           s == PageRows(Request(1, p, q))
<1>2. /\ DOMAIN tick = TickFields /\ p \in ProfilesOf /\ q.sort = "created" /\ k \in Int
      /\ tick.late \in BOOLEAN
  BY <1>0, <1>1 DEF LogsShape
<1>3. /\ tick'.rows = s /\ tick'.profile = p /\ tick'.query = q /\ tick'.late = tick.late
      /\ DOMAIN tick' = TickFields
  BY <1>1, <1>2 DEF TickFields
<1>4. LogsShape'
  BY <1>0, <1>1, <1>2, <1>3 DEF LogsShape, ProfilesOf
<1>5. LogsHeld'
  BY <1>0, <1>1 DEF LogsHeld, Single, Loading
<1>6. FirstPage(s, k, p, q) /\ (Len(s) = First => Reached(First, s, k, p, q))
  <2>1. 1 \in Nat \ {0} /\ Offset(1) = 0 /\ LimitOf(1) = First
    BY DEF Offset, LimitOf
  <2>2. PageIs(s, 0, First, k, p, q)
    BY <1>2, <2>1, PageServed
  <2> HIDE DEF s, k
  <2> QED BY <1>2, <2>2, FirstPageServed
<1>7. ASSUME Single, p = activePid, q = query
      PROVE  NotNewerThan(listing, k)
  <2>1. Held(listing, Loading, k, p, q)
    BY <1>0, <1>7 DEF LogsHeld
  <2>2. /\ listing.logs \in Seq(Matching(k, p, q))
        /\ listing.pending # <<>> /\ ~listing.overflow => listing.pending \in Seq(Matching(k, p, q))
    BY <2>1 DEF Held, Listed, GoesBefore
  <2> HIDE DEF k
  <2> QED BY <1>2, <2>2, PageRange DEF NotNewerThan
<1>8. TickRead(tick, k)'
  <2> HIDE DEF s
  <2>1. k <= k
    BY <1>2
  <2> QED BY <1>1, <1>3, <1>6, <1>7, <2>1 DEF TickRead, Single
<1>9. TickSound'
  <2>1. k' = k
    BY <1>1, <1>3
  <2> HIDE DEF k
  <2>2. \E n \in Int : TickRead(tick, n)'
    BY <1>2, <1>8, <2>1
  <2> QED BY <2>2 DEF TickSound
<1> QED BY <1>4, <1>5, <1>9 DEF LogsInv

\* An answered tick stages its rows, or shows them where nothing is shown.
LEMMA LogsStaged == ASSUME LogsInv, TickAnswered PROVE LogsInv'
<1>0. LogsShape /\ LogsHeld /\ TickSound
  BY DEF LogsInv
<1>1. /\ UNCHANGED <<activePid, query, fetch, arrived, submit>>
      /\ tick # Null /\ tick.rows # Null /\ tick' = Null
      /\ listing' = StagedRows(listing, tick.rows)
      /\ mixed' = (mixed \/ tick.late \/ tick.query # query \/ tick.profile # activePid)
  BY DEF TickAnswered, sheetVars
<1> DEFINE p == activePid
           q == query
           k == arrived[p]
           f == tick.rows
           diff == ComputeNewQueryLogs(f, listing.logs)
<1>2. /\ DOMAIN listing = ListingFields /\ listing.page \in Nat \ {0} /\ k \in Int
      /\ listing.hasMore \in BOOLEAN /\ listing.overflow \in BOOLEAN /\ mixed \in BOOLEAN
      /\ tick.late \in BOOLEAN /\ tick.query.sort = "created"
  BY <1>0, <1>1 DEF LogsShape
<1>3. /\ DOMAIN listing' = ListingFields /\ listing'.page = listing.page
      /\ listing.logs = <<>> =>
            /\ listing'.logs = f /\ listing'.pending = <<>> /\ listing'.overflow = FALSE
            /\ listing'.hasMore = (Len(f) = First)
      /\ listing.logs # <<>> =>
            /\ listing'.logs = listing.logs /\ listing'.hasMore = listing.hasMore
            /\ listing'.pending = diff.rows
            /\ listing'.overflow = (~diff.overlap /\ Len(f) = First)
  BY <1>1, <1>2 DEF StagedRows, ListingFields
<1> HIDE DEF f, diff, k
<1>4. LogsShape'
  <2>1. listing'.hasMore \in BOOLEAN /\ listing'.overflow \in BOOLEAN /\ mixed' \in BOOLEAN
    BY <1>1, <1>2, <1>3
  <2>2. ~mixed' => query.sort = "created"
    BY <1>1, <1>2
  <2> QED BY <1>0, <1>1, <1>2, <1>3, <2>1, <2>2 DEF LogsShape, ProfilesOf
<1>5. ASSUME ~mixed', query.sort = "created"
      PROVE  Held(listing', Loading, k, p, q)
  <2>1. Single /\ ~tick.late /\ tick.profile = p /\ tick.query = q
    BY <1>1, <1>5 DEF Single
  <2>2. PICK n \in Int : TickRead(tick, n)
    BY <1>0, <1>1 DEF TickSound
  <2>3. /\ n <= k /\ FirstPage(f, n, p, q) /\ NotNewerThan(listing, n)
        /\ Len(f) = First => Reached(First, f, k, p, q)
    BY <2>1, <2>2 DEF TickRead, f, k
  <2>4. Held(listing, Loading, k, p, q)
    BY <1>0, <2>1 DEF LogsHeld, k
  <2>5. CASE listing.logs = <<>>
    <3>1. Listed(f, k, p, q)
      BY <1>2, <2>3, FirstPageListed
    <3>2. listing.page = 1
      BY <2>4, <2>5 DEF Held
    <3>3. Offset(listing.page + 1) = First
      <4>1. Offset(2) = First
        BY PageLimits DEF Offset
      <4> QED BY <3>2, <4>1
    <3>4. listing'.hasMore => Reached(Offset(listing'.page + 1), listing'.logs, k, p, q)
      BY <1>3, <2>3, <2>5, <3>3
    <3>5. ~(listing'.page > 1) /\ listing'.page = 1
      BY <1>3, <3>2
    <3>6. Listed(listing'.logs, k, p, q) /\ listing'.pending = <<>>
      BY <1>3, <2>5, <3>1
    <3> QED BY <3>4, <3>5, <3>6 DEF Held
  <2>6. CASE listing.logs # <<>>
    <3>1. Listed(listing.logs, k, p, q) /\ \A i \in 1 .. Len(listing.logs) : listing.logs[i][2] <= n
      BY <2>3, <2>4 DEF Held, NotNewerThan
    <3>2. ASSUME ~listing'.overflow
          PROVE  GoesBefore(listing'.pending, listing'.logs, k, p, q)
      <4>1. diff.overlap \/ Len(f) # First
        BY <1>3, <2>6, <3>2
      <4>2. GoesBefore(diff.rows, listing.logs, k, p, q)
        BY <1>2, <2>3, <2>6, <3>1, <4>1, DiffContinues DEF diff
      <4> QED BY <1>3, <2>6, <4>2
    <3> QED BY <1>3, <2>4, <2>6, <3>2 DEF Held
  <2> QED BY <2>5, <2>6
<1>6. LogsHeld'
  BY <1>1, <1>5 DEF LogsHeld, Single, Loading, k
<1> QED BY <1>1, <1>4, <1>6 DEF LogsInv, TickSound

\* The rows behind the pill go before the list.
LEMMA LogsMerged ==
    ASSUME LogsInv, PillShown, ~listing.overflow,
           UNCHANGED <<activePid, query, fetch, tick, arrived, mixed, submit>>,
           listing' = [listing EXCEPT !.logs = listing.pending \o @, !.pending = <<>>]
    PROVE  LogsInv'
<1>0. LogsShape /\ LogsHeld /\ TickSound /\ listing.pending # <<>>
  BY DEF LogsInv, PillShown
<1>1. /\ DOMAIN listing' = ListingFields /\ listing'.page = listing.page
      /\ listing'.logs = listing.pending \o listing.logs /\ listing'.pending = <<>>
      /\ listing'.hasMore = listing.hasMore /\ listing'.overflow = listing.overflow
  BY <1>0 DEF LogsShape, ListingFields
<1>2. LogsShape'
  BY <1>0, <1>1 DEF LogsShape, ProfilesOf
<1> DEFINE k == arrived[activePid]
           w == listing.pending \o listing.logs
<1>3. k \in Int /\ listing.page \in Nat \ {0}
  BY <1>0 DEF LogsShape
<1>4. ASSUME Single
      PROVE  /\ Listed(listing.logs, k, activePid, query)
             /\ GoesBefore(listing.pending, listing.logs, k, activePid, query)
             /\ Listed(w, k, activePid, query) /\ w # <<>>
             /\ Held(listing', Loading, k, activePid, query)
  <2>1. Held(listing, Loading, k, activePid, query)
    BY <1>0, <1>4 DEF LogsHeld
  <2>2. /\ Listed(listing.logs, k, activePid, query)
        /\ GoesBefore(listing.pending, listing.logs, k, activePid, query)
    BY <1>0, <2>1 DEF Held
  <2> HIDE DEF k
  <2>3. /\ Listed(w, k, activePid, query) /\ w # <<>>
        /\ \A e \in Nat : Reached(e, listing.logs, k, activePid, query)
                              => Reached(e, w, k, activePid, query)
    BY <1>0, <1>3, <2>2, PendingMerged
  <2> HIDE DEF w
  <2>4. Offset(listing.page) \in Nat /\ Offset(listing.page + 1) \in Nat
    BY <1>3, PageStarts
  <2>5. listing'.logs = w
    BY <1>1 DEF w
  <2>6. listing.page > 1 => Reached(Offset(listing.page), w, k, activePid, query)
    BY <2>1, <2>3, <2>4 DEF Held
  <2>7. ~Loading /\ listing.hasMore => Reached(Offset(listing.page + 1), w, k, activePid, query)
    BY <1>0, <2>1, <2>3, <2>4 DEF Held
  <2>8. Held(listing', Loading, k, activePid, query)
    BY <1>1, <2>3, <2>5, <2>6, <2>7 DEF Held
  <2> QED BY <2>2, <2>3, <2>8
<1>5. LogsHeld'
  BY <1>4 DEF LogsHeld, Single, Loading
<1>6. TickSound'
  <2> SUFFICES ASSUME tick # Null, tick.rows # Null
               PROVE  \E n \in Int : TickRead(tick, n)'
    BY DEF TickSound
  <2>1. PICK n \in Int : TickRead(tick, n)
    BY <1>0 DEF TickSound
  <2>2. ASSUME Single, NotNewerThan(listing, n)
        PROVE  NotNewerThan(listing', n)
    <3>1. /\ listing.logs \in Seq(Matching(k, activePid, query))
          /\ listing.pending \in Seq(Matching(k, activePid, query))
          /\ w \in Seq(Matching(k, activePid, query))
      BY <1>4, <2>2 DEF Listed, GoesBefore
    <3>2. RowsOf(w) = RowsOf(listing.pending) \cup RowsOf(listing.logs)
      BY <3>1, RowsTogether
    <3>3. /\ \A i \in 1 .. Len(listing.logs) : listing.logs[i][2] <= n
          /\ \A i \in 1 .. Len(listing.pending) : listing.pending[i][2] <= n
      BY <1>0, <2>2 DEF NotNewerThan
    <3> HIDE DEF w, k
    <3>4. \A r \in RowsOf(w) : r[2] <= n
      <4>1. /\ RowsOf(listing.logs) = {listing.logs[i] : i \in 1 .. Len(listing.logs)}
            /\ RowsOf(listing.pending) = {listing.pending[i] : i \in 1 .. Len(listing.pending)}
        BY <1>3, <3>1, RowsIn
      <4> QED BY <3>2, <3>3, <4>1
    <3>5. \A i \in 1 .. Len(w) : w[i][2] <= n
      BY <1>3, <3>1, <3>4, RowsIn
    <3> QED BY <1>1, <3>5 DEF NotNewerThan, w
  <2> QED BY <2>1, <2>2 DEF TickRead, Single
<1> QED BY <1>2, <1>5, <1>6 DEF LogsInv

LEMMA LogsLoaded == ASSUME LogsInv, ListAnswered PROVE LogsInv'
<1>0. LogsShape /\ LogsHeld /\ TickSound
  BY DEF LogsInv
<1> DEFINE p == activePid
           q == query
           k == arrived[p]
           g == listing.page
           t == PageRows(Request(g, p, q))
           d == Offset(g)
           c == LimitOf(g)
           s == listing.logs
<1>1. /\ UNCHANGED <<activePid, query, arrived, submit>> /\ fetch' = Null
      /\ fetch = Request(g, p, q) /\ fetch.page = g
      /\ tick' = IF tick # Null /\ g = 1 THEN [tick EXCEPT !.late = TRUE] ELSE tick
      /\ listing' = Loaded(listing, g, t)
      /\ mixed' = IF g = 1 THEN listing.pending # <<>> ELSE mixed \/ Overtaken(t)
  <2>1. Loading /\ fetch = Request(g, p, q)
    BY <1>0 DEF ListAnswered, LogsShape, Loading
  <2>2. fetch.page = g
    BY <2>1 DEF Request
  <2> QED BY <2>1, <2>2 DEF ListAnswered, sheetVars
<1>2. /\ DOMAIN listing = ListingFields /\ g \in Nat \ {0} /\ p \in ProfilesOf /\ k \in Int
      /\ arrived[p] \in Int /\ mixed \in BOOLEAN /\ listing.overflow \in BOOLEAN
  BY <1>0 DEF LogsShape
<1>3. d \in Nat /\ c \in Nat \ {0} /\ Offset(g + 1) = d + c
  BY <1>2, PageStarts
<1> HIDE DEF t, c
<1>4. /\ DOMAIN listing' = ListingFields /\ listing'.page = g
      /\ listing'.logs = IF g = 1 THEN t ELSE s \o t
      /\ listing'.hasMore = More(Len(t) = c, g)
      /\ listing'.pending = listing.pending /\ listing'.overflow = listing.overflow
  BY <1>1, <1>2 DEF Loaded, ListingFields, c
<1>5. listing'.hasMore \in BOOLEAN /\ (listing'.hasMore => Len(t) = c)
  BY <1>4 DEF More
<1>6. tick' # Null => /\ tick # Null /\ DOMAIN tick' = TickFields /\ tick'.late \in BOOLEAN
                      /\ tick'.profile = tick.profile /\ tick'.query = tick.query
                      /\ tick'.rows = tick.rows /\ (g = 1 => tick'.late)
                      /\ (g # 1 => tick'.late = tick.late)
  <2> SUFFICES ASSUME tick' # Null, tick # Null
               PROVE  /\ DOMAIN tick' = TickFields /\ tick'.late \in BOOLEAN
                      /\ tick'.profile = tick.profile /\ tick'.query = tick.query
                      /\ tick'.rows = tick.rows /\ (g = 1 => tick'.late)
                      /\ (g # 1 => tick'.late = tick.late)
    BY <1>1
  <2>1. DOMAIN tick = TickFields /\ tick.late \in BOOLEAN
    BY <1>0 DEF LogsShape
  <2>2. CASE g = 1
    BY <1>1, <2>1, <2>2 DEF TickFields
  <2>3. CASE g # 1
    BY <1>1, <2>1, <2>3
  <2> QED BY <2>2, <2>3
<1>7. LogsShape'
  <2>1. mixed' \in BOOLEAN /\ (~mixed' /\ listing'.pending # <<>> => query.sort = "created")
    BY <1>0, <1>1, <1>2, <1>4 DEF LogsShape, Overtaken
  <2>2. tick' # Null => tick.profile \in ProfilesOf /\ tick.query.sort = "created"
    BY <1>0, <1>6 DEF LogsShape
  <2> QED BY <1>0, <1>1, <1>2, <1>4, <1>5, <1>6, <2>1, <2>2 DEF LogsShape, ProfilesOf
<1>8. ASSUME ~mixed', q.sort = "created"
      PROVE  PageIs(t, d, c, k, p, q)
  BY <1>2, <1>8, PageServed DEF t, c
<1> HIDE DEF k
<1>9. ASSUME ~mixed', q.sort = "created", g = 1
      PROVE  Held(listing', FALSE, k, p, q)
  <2>1. d = 0 /\ c = First /\ listing.pending = <<>>
    BY <1>1, <1>9 DEF Offset, LimitOf, c
  <2>2. FirstPage(t, k, p, q) /\ (Len(t) = First => Reached(First, t, k, p, q))
    BY <1>2, <1>8, <1>9, <2>1, FirstPageServed
  <2>3. Listed(t, k, p, q)
    <3>1. k <= k
      BY <1>2
    <3> QED BY <1>2, <2>2, <3>1, FirstPageListed
  <2>4. Offset(g + 1) = First
    BY <1>3, <2>1, PageLimits
  <2>5. /\ Listed(listing'.logs, k, p, q) /\ listing'.page = 1 /\ ~(1 > 1)
        /\ listing'.pending = <<>>
    BY <1>4, <1>9, <2>1, <2>3
  <2>6. listing'.hasMore => Reached(Offset(listing'.page + 1), listing'.logs, k, p, q)
    BY <1>4, <1>5, <1>9, <2>1, <2>2, <2>4
  <2> QED BY <2>5, <2>6 DEF Held
<1>10. ASSUME ~mixed', q.sort = "created", g # 1
       PROVE  /\ Single /\ Listed(s, k, p, q) /\ Listed(s \o t, k, p, q)
              /\ t \in Seq(Matching(k, p, q)) /\ Behind(RowsOf(t), RowsOf(s))
              /\ Held(listing', FALSE, k, p, q)
  <2>1. Single /\ ~Overtaken(t)
    BY <1>1, <1>10 DEF Single
  <2>2. Held(listing, Loading, k, p, q)
    BY <1>0, <2>1 DEF LogsHeld, k
  <2>3. Listed(s, k, p, q) /\ g > 1 /\ Reached(d, s, k, p, q) /\ s # <<>>
    BY <1>2, <1>10, <2>2 DEF Held
  <2>4. PageIs(t, d, c, k, p, q) /\ t \in Seq(Matching(k, p, q)) /\ s \in Seq(Matching(k, p, q))
    BY <1>8, <1>10, <2>3 DEF PageIs, Listed
  <2>5. Behind(RowsOf(t), RowsOf(s))
    <3>1. ASSUME NEW r \in RowsOf(t)
          PROVE  \E u \in RowsOf(s) : r[2] <= u[2]
      <4>1. PICK u \in RowsOf(s) : u[1] = r[1] /\ ~(r[2] > u[2])
        BY <2>1 DEF Overtaken
      <4>2. r[2] \in Int /\ u[2] \in Int
        <5>1. r[2] \in Int
          BY <1>2, <2>4, RowOfIn
        <5>2. u[2] \in Int
          BY <1>2, <2>4, RowOfIn
        <5> QED BY <5>1, <5>2
      <4> QED BY <4>1, <4>2
    <3> QED BY <3>1 DEF Behind
  <2> HIDE DEF s, d
  <2>6. /\ Listed(s \o t, k, p, q)
        /\ \A e \in Nat : Reached(e, s, k, p, q) => Reached(e, s \o t, k, p, q)
        /\ Len(t) = c => Reached(d + c, s \o t, k, p, q)
    BY <1>2, <1>3, <2>3, <2>4, <2>5, PageAppended
  <2>7. listing'.logs = s \o t /\ s \o t # <<>>
    <3>1. Len(s) \in Nat \ {0} /\ Len(t) \in Nat /\ Len(s \o t) = Len(s) + Len(t)
      BY <2>3, <2>4, EmptySeq, LenProperties, ConcatProperties
    <3>2. Len(s \o t) # 0
      BY <3>1
    <3> QED BY <1>4, <1>10, <3>2, EmptySeq DEF s
  <2>8. Reached(Offset(listing'.page), listing'.logs, k, p, q)
    BY <1>3, <1>4, <2>3, <2>6, <2>7 DEF d
  <2>9. listing'.hasMore => Reached(Offset(listing'.page + 1), listing'.logs, k, p, q)
    BY <1>3, <1>4, <1>5, <2>6, <2>7
  <2>10. ASSUME listing.pending # <<>>, ~listing.overflow
         PROVE  GoesBefore(listing.pending, s \o t, k, p, q)
    <3>1. GoesBefore(listing.pending, s, k, p, q)
      BY <2>2, <2>10 DEF Held, s
    <3> QED BY <1>2, <2>4, <2>5, <2>6, <3>1, PageBehind
  <2>11. Held(listing', FALSE, k, p, q)
    BY <1>4, <2>6, <2>7, <2>8, <2>9, <2>10 DEF Held
  <2> QED BY <2>1, <2>3, <2>4, <2>5, <2>6, <2>11
<1>11. LogsHeld'
  <2>1. Single' => Held(listing', FALSE, k, p, q)
    BY <1>1, <1>9, <1>10 DEF Single
  <2> QED BY <1>1, <2>1 DEF LogsHeld, Loading, k
<1>12. TickSound'
  <2> SUFFICES ASSUME tick' # Null, tick'.rows # Null
               PROVE  \E n \in Int : TickRead(tick, n)'
    BY DEF TickSound
  <2>1. PICK n \in Int : TickRead(tick, n)
    BY <1>0, <1>6 DEF TickSound
  <2>2. ASSUME Single', g # 1, NotNewerThan(listing, n)
        PROVE  NotNewerThan(listing', n)
    <3>1. /\ Listed(s, k, p, q) /\ Listed(s \o t, k, p, q)
          /\ t \in Seq(Matching(k, p, q)) /\ Behind(RowsOf(t), RowsOf(s))
      BY <1>1, <1>10, <2>2 DEF Single
    <3> DEFINE w == s \o t
    <3>2. /\ s \in Seq(Matching(k, p, q)) /\ w \in Seq(Matching(k, p, q))
          /\ RowsOf(w) = RowsOf(s) \cup RowsOf(t)
      BY <3>1, RowsTogether DEF Listed
    <3>3. \A i \in 1 .. Len(s) : s[i][2] <= n
      BY <2>2 DEF NotNewerThan
    <3>4. \A r \in RowsOf(s) : r[2] <= n /\ r[2] \in Int
      BY <1>2, <3>2, <3>3, RowOfIn
    <3> HIDE DEF w
    <3>5. ASSUME NEW r \in RowsOf(w)
          PROVE  r[2] <= n
      <4>1. CASE r \in RowsOf(s)
        BY <3>4, <4>1
      <4>2. CASE r \in RowsOf(t)
        <5>1. PICK u \in RowsOf(s) : r[2] <= u[2]
          BY <3>1, <4>2 DEF Behind
        <5>2. r[2] \in Int
          BY <1>2, <3>1, <4>2, RowOfIn
        <5> QED BY <3>4, <5>1, <5>2
      <4> QED BY <3>2, <4>1, <4>2
    <3>6. \A i \in 1 .. Len(w) : w[i][2] <= n
      BY <1>2, <3>2, <3>5, RowsIn
    <3> QED BY <1>4, <2>2, <3>6 DEF NotNewerThan, w
  <2>3. TickRead(tick, n)'
    <3>1. /\ n <= arrived'[tick'.profile] /\ FirstPage(tick'.rows, n, tick'.profile, tick'.query)
          /\ Len(tick'.rows) = First =>
                Reached(First, tick'.rows, arrived'[tick'.profile], tick'.profile, tick'.query)
      BY <1>1, <1>6, <2>1 DEF TickRead
    <3>2. ASSUME Single', ~tick'.late, tick'.profile = activePid, tick'.query = query
          PROVE  NotNewerThan(listing', n)
      <4>1. g # 1 /\ ~mixed
        BY <1>1, <1>6, <3>2 DEF Single
      <4>2. NotNewerThan(listing, n)
        BY <1>1, <1>6, <2>1, <3>2, <4>1 DEF TickRead, Single
      <4> QED BY <2>2, <3>2, <4>1, <4>2
    <3> QED BY <1>1, <3>1, <3>2 DEF TickRead
  <2> QED BY <2>3
<1> QED BY <1>7, <1>11, <1>12 DEF LogsInv

LEMMA RequestGiven ==
    ASSUME NullHasNoPage, NEW g, NEW p, NEW q
    PROVE  Request(g, p, q) # Null
<1>1. "page" \in DOMAIN Request(g, p, q)
  BY DEF Request
<1> QED BY <1>1 DEF NullHasNoPage

LEMMA LogsRefresh == ASSUME NullHasNoPage, LogsInv, HandleRefresh PROVE LogsInv'
<1>0. LogsShape
  BY DEF LogsInv
<1>1. /\ UNCHANGED <<activePid, query, tick, arrived, mixed, submit>>
      /\ listing' = [Refreshed(listing) EXCEPT !.error = FALSE]
      /\ fetch' = Request(Refreshed(listing).page, activePid, query)
  BY DEF HandleRefresh, Fetch, sheetVars
<1>2. /\ DOMAIN listing' = ListingFields /\ listing'.hasMore = listing.hasMore
      /\ listing'.overflow = FALSE /\ listing'.logs = listing.logs
      /\ listing'.pending = <<>> /\ listing'.page = 1 /\ Refreshed(listing).page = 1
  BY <1>0, <1>1 DEF LogsShape, Refreshed, ListingFields
<1>3. Loading'
  BY <1>1, RequestGiven DEF Loading
<1>4. /\ listing'.hasMore \in BOOLEAN /\ listing'.overflow \in BOOLEAN
      /\ submit' # Null => submit'.profile \in ProfilesOf
  BY <1>0, <1>1, <1>2 DEF LogsShape
<1> QED BY <1>1, <1>2, <1>3, <1>4, LogsRead

LEMMA LogsSame ==
    ASSUME LogsInv, UNCHANGED <<activePid, listing, query, fetch, arrived, mixed, tick, submit>>
    PROVE  LogsInv'
<1>1. submit' # Null => submit'.profile \in ProfilesOf
  BY DEF LogsInv, LogsShape
<1> QED BY <1>1, LogsQuiet

LEMMA LogsTick == ASSUME NullHasNoPage, LogsInv, RunBackgroundTick PROVE LogsInv'
<1>1. CASE tabHidden' \/ ~LogsEnabled(activePid) \/ Loading \/ tick # Null
  <2>1. UNCHANGED <<activePid, listing, query, fetch, arrived, mixed, tick, submit>>
    BY <1>1 DEF RunBackgroundTick, listVars, sheetVars
  <2> QED BY <2>1, LogsSame
<1>2. CASE ~(tabHidden' \/ ~LogsEnabled(activePid) \/ Loading \/ tick # Null)
           /\ query.sort # "created"
  <2>1. HandleRefresh
    BY <1>2 DEF RunBackgroundTick
  <2> QED BY <2>1, LogsRefresh
<1>3. CASE ~(tabHidden' \/ ~LogsEnabled(activePid) \/ Loading \/ tick # Null)
           /\ query.sort = "created"
  <2>1. /\ UNCHANGED <<activePid, listing, query, fetch, arrived, mixed, submit>>
        /\ tick' = [profile |-> activePid, query |-> query, rows |-> Null, late |-> FALSE]
    BY <1>3 DEF RunBackgroundTick, listVars, sheetVars
  <2>2. submit' # Null => submit'.profile \in ProfilesOf
    BY <2>1 DEF LogsInv, LogsShape
  <2> QED BY <1>3, <2>1, <2>2, LogsQuiet
<1> QED BY <1>1, <1>2, <1>3

LEMMA LogsCommitted ==
    ASSUME NullHasNoPage, LogsInv, UNCHANGED <<activePid, tick, arrived, submit>>,
           NEW q, CommitFilters(q)
    PROVE  LogsInv'
<1>1. CASE UNCHANGED <<listing, query, fetch, mixed>>
  BY <1>1, LogsSame
<1>2. CASE query' = q /\ Fetch(NewView, activePid, q) /\ mixed' = FALSE
  <2>1. Fetch(NewView, activePid, query')
    BY <1>2
  <2> QED BY <1>2, <2>1, LogsFiltered
<1> QED BY <1>1, <1>2 DEF CommitFilters

LEMMA LogsActivated ==
    ASSUME NullHasNoPage, LogsInv, NEW p \in ProfilesOf, ActivateProfile(p),
           submit' # Null => submit'.profile \in ProfilesOf
    PROVE  LogsInv'
<1>0. LogsShape
  BY DEF LogsInv
<1> DEFINE v == IF p = activePid THEN listing ELSE ProfileReset(listing)
<1>1. /\ activePid' = p /\ UNCHANGED <<query, tick, arrived>>
      /\ listing' = [v EXCEPT !.error = FALSE] /\ fetch' = Request(v.page, p, query)
      /\ mixed' = (mixed \/ p # activePid)
  BY DEF ActivateProfile, Fetch
<1>2. /\ DOMAIN v = ListingFields /\ v.page = listing.page /\ v.hasMore = listing.hasMore
      /\ v.overflow \in BOOLEAN
  BY <1>0 DEF LogsShape, ProfileReset, ListingFields
<1>3. /\ DOMAIN listing' = ListingFields /\ listing'.page = listing.page
      /\ listing'.hasMore = listing.hasMore /\ listing'.overflow = v.overflow
      /\ listing'.logs = v.logs /\ listing'.pending = v.pending
  BY <1>1, <1>2 DEF ListingFields
<1>4. Loading'
  BY <1>1, RequestGiven DEF Loading
<1>5. listing'.hasMore \in BOOLEAN /\ listing'.overflow \in BOOLEAN /\ mixed' \in BOOLEAN
  BY <1>0, <1>1, <1>2, <1>3 DEF LogsShape
<1>6. CASE p = activePid
  <2>1. /\ UNCHANGED <<activePid, query, tick, arrived, mixed>>
        /\ listing'.logs = listing.logs /\ listing'.pending = listing.pending
        /\ listing'.overflow = listing.overflow
        /\ fetch' = Request(listing'.page, activePid, query)
    BY <1>0, <1>1, <1>2, <1>3, <1>6 DEF LogsShape
  <2> QED BY <1>3, <1>4, <1>5, <2>1, LogsRead
<1>7. CASE p # activePid
  <2>1. mixed' /\ activePid' \in ProfilesOf /\ fetch' = Request(listing'.page, activePid', query)
    BY <1>1, <1>2, <1>3, <1>7
  <2> QED BY <1>1, <1>3, <1>5, <2>1, LogsMixed
<1> QED BY <1>6, <1>7

LEMMA LogsNextPage == ASSUME NullHasNoPage, LogsInv, NextPage PROVE LogsInv'
<1>0. LogsShape
  BY DEF LogsInv
<1> DEFINE v == [listing EXCEPT !.page = @ + 1]
<1>1. /\ UNCHANGED <<activePid, query, tick, arrived, mixed, submit>>
      /\ listing' = [v EXCEPT !.error = FALSE] /\ fetch' = Request(v.page, activePid, query)
      /\ listing.logs # <<>> /\ ~Loading /\ listing.hasMore
  BY DEF NextPage, Fetch, SentinelSees, sheetVars
<1>2. DOMAIN v = ListingFields /\ v.page = listing.page + 1
  BY <1>0 DEF LogsShape, ListingFields
<1>3. /\ DOMAIN listing' = ListingFields /\ listing'.page = listing.page + 1
      /\ listing'.hasMore = listing.hasMore /\ listing'.overflow = listing.overflow
      /\ listing'.logs = listing.logs /\ listing'.pending = listing.pending
  BY <1>0, <1>1, <1>2 DEF LogsShape, ListingFields
<1>4. Loading' /\ fetch' = Request(listing'.page, activePid, query)
  BY <1>1, <1>2, <1>3, RequestGiven DEF Loading
<1>5. /\ listing'.hasMore \in BOOLEAN /\ listing'.overflow \in BOOLEAN
      /\ submit' # Null => submit'.profile \in ProfilesOf
  BY <1>0, <1>1, <1>3 DEF LogsShape
<1> QED BY <1>1, <1>3, <1>4, <1>5, LogsRead

LEMMA LogsFailed == ASSUME LogsInv, ListFailed PROVE LogsInv'
<1>0. LogsShape
  BY DEF LogsInv
<1>1. /\ UNCHANGED <<activePid, query, tick, arrived, mixed, submit>> /\ fetch' = Null
      /\ \E told \in BOOLEAN : listing' = [listing EXCEPT !.hasMore = FALSE, !.error = told]
  BY DEF ListFailed, sheetVars
<1>2. /\ DOMAIN listing' = ListingFields /\ listing'.page = listing.page
      /\ listing'.hasMore = FALSE /\ listing'.overflow = listing.overflow
      /\ listing'.logs = listing.logs /\ listing'.pending = listing.pending
  BY <1>0, <1>1 DEF LogsShape, ListingFields
<1>3. /\ listing'.hasMore \in BOOLEAN /\ listing'.overflow \in BOOLEAN
      /\ submit' # Null => submit'.profile \in ProfilesOf
  BY <1>0, <1>1, <1>2 DEF LogsShape
<1> QED BY <1>1, <1>2, <1>3, LogsRead

LEMMA LogsIntervalChanged ==
    ASSUME NullHasNoPage, LogsInv, HandleRefreshIntervalChange PROVE LogsInv'
<1>0. LogsShape
  BY DEF LogsInv
<1>1. CASE auto'
  <2>1. RunBackgroundTick
    BY <1>1 DEF HandleRefreshIntervalChange
  <2> QED BY <2>1, LogsTick
<1>2. CASE ~auto'
  <2>1. /\ UNCHANGED <<activePid, query, tick, arrived, mixed, submit, fetch>>
        /\ listing' = [listing EXCEPT !.pending = <<>>, !.overflow = FALSE]
    BY <1>2 DEF HandleRefreshIntervalChange, sheetVars
  <2>2. /\ DOMAIN listing' = ListingFields /\ listing'.page = listing.page
        /\ listing'.hasMore = listing.hasMore /\ listing'.overflow = FALSE
        /\ listing'.logs = listing.logs /\ listing'.pending = <<>>
    BY <1>0, <2>1 DEF LogsShape, ListingFields
  <2>3. /\ listing'.hasMore \in BOOLEAN /\ listing'.overflow \in BOOLEAN
        /\ submit' # Null => submit'.profile \in ProfilesOf
        /\ fetch' # Null => fetch' = Request(listing'.page, activePid, query)
        /\ Loading' = Loading
    BY <1>0, <2>1, <2>2 DEF LogsShape, Loading
  <2> QED BY <2>1, <2>2, <2>3, LogsRead
<1> QED BY <1>1, <1>2

LEMMA LogsShowPending == ASSUME NullHasNoPage, LogsInv, HandleShowPending PROVE LogsInv'
<1>1. CASE listing.overflow
  <2>1. HandleRefresh
    BY <1>1 DEF HandleShowPending
  <2> QED BY <2>1, LogsRefresh
<1>2. CASE ~listing.overflow
  <2>1. /\ PillShown /\ UNCHANGED <<activePid, query, fetch, tick, arrived, mixed, submit>>
        /\ listing' = [listing EXCEPT !.logs = listing.pending \o @, !.pending = <<>>]
    BY <1>2 DEF HandleShowPending, sheetVars
  <2> QED BY <1>2, <2>1, LogsMerged
<1> QED BY <1>1, <1>2

LEMMA LogsBar == ASSUME NullHasNoPage, LogsInv, FilterBar \/ CommitSearch PROVE LogsInv'
<1>1. ASSUME NEW q, Filtered(q)
      PROVE  LogsInv'
  <2>1. UNCHANGED <<activePid, tick, arrived, submit>> /\ CommitFilters(q)
    BY <1>1 DEF Filtered, sheetVars
  <2> QED BY <2>1, LogsCommitted
<1>2. ASSUME NEW value, OnFilterChange(value) \/ OnDeviceIdChange(value)
                        \/ OnSortChange(value) \/ OnTimespanChange(value)
      PROVE  LogsInv'
  BY <1>1, <1>2 DEF OnFilterChange, OnDeviceIdChange, OnSortChange, OnTimespanChange
<1>3. ASSUME NEW value, OnSearchInputChange(value)
      PROVE  LogsInv'
  <2>1. UNCHANGED <<activePid, listing, query, fetch, arrived, mixed, tick, submit>>
    BY <1>3 DEF OnSearchInputChange, sheetVars
  <2> QED BY <2>1, LogsSame
<1>4. CASE HandleSearchClear
  <2>1. /\ UNCHANGED <<activePid, tick, arrived, submit>>
        /\ CommitFilters([query EXCEPT !.search = Null])
    BY <1>4 DEF HandleSearchClear, sheetVars
  <2> QED BY <2>1, LogsCommitted
<1>5. CASE HandleClearFilters
  BY <1>1, <1>5 DEF HandleClearFilters
<1>6. CASE CommitSearch
  <2>1. /\ UNCHANGED <<activePid, tick, arrived, submit>>
        /\ CommitFilters([query EXCEPT !.search = typed])
    BY <1>6 DEF CommitSearch, sheetVars
  <2> QED BY <2>1, LogsCommitted
<1> QED BY <1>2, <1>3, <1>4, <1>5, <1>6 DEF FilterBar

\* The device list and the sheet.
LEMMA LogsAside ==
    ASSUME LogsInv,
           DevicesAnswered \/ HandleOpenQuickRule \/ HandleQuickRuleSheetChange
           \/ HandleActionKeyDown \/ HandleSubmitRule \/ RuleSkipped \/ RuleFailed \/ TickFailed
    PROVE  LogsInv'
<1>0. LogsShape
  BY DEF LogsInv
<1>1. UNCHANGED <<activePid, listing, query, fetch, arrived, mixed>> /\ tick' \in {tick, Null}
  BY DEF DevicesAnswered, HandleOpenQuickRule, HandleQuickRuleSheetChange, HandleActionKeyDown,
         HandleSubmitRule, RuleSkipped, RuleFailed, TickFailed, listVars, sheetVars
<1>2. submit' # Null => submit'.profile \in ProfilesOf
  <2>1. CASE HandleSubmitRule
    BY <1>0, <2>1 DEF HandleSubmitRule, LogsShape
  <2>2. CASE ~HandleSubmitRule
    <3>1. submit' \in {submit, Null}
      BY <2>2 DEF DevicesAnswered, HandleOpenQuickRule, HandleQuickRuleSheetChange,
         HandleActionKeyDown, RuleSkipped, RuleFailed, TickFailed, listVars, sheetVars
    <3> QED BY <1>0, <3>1 DEF LogsShape
  <2> QED BY <2>1, <2>2
<1> QED BY <1>1, <1>2, LogsQuiet

LEMMA LogsStep == ASSUME NullHasNoPage, LogsInv, [Next]_vars PROVE LogsInv'
<1>1. CASE NextPage
  BY <1>1, LogsNextPage
<1>2. CASE ListAnswered
  BY <1>2, LogsLoaded
<1>3. CASE ListFailed
  BY <1>3, LogsFailed
<1>4. CASE FilterBar \/ CommitSearch
  BY <1>4, LogsBar
<1>5. CASE HandleManualRefresh \/ HandleTouchEnd
  <2>1. HandleRefresh
    BY <1>5 DEF HandleTouchEnd, HandleManualRefresh
  <2> QED BY <2>1, LogsRefresh
<1>6. CASE HandleRefreshIntervalChange
  BY <1>6, LogsIntervalChanged
<1>7. CASE IntervalTick
  BY <1>7, LogsTick DEF IntervalTick
<1>8. CASE OnVisibilityChange
  <2>1. CASE auto /\ ~tabHidden'
    BY <1>8, <2>1, LogsTick DEF OnVisibilityChange
  <2>2. CASE ~(auto /\ ~tabHidden')
    <3>1. UNCHANGED <<activePid, listing, query, fetch, arrived, mixed, tick, submit>>
      BY <1>8, <2>2 DEF OnVisibilityChange, listVars, sheetVars
    <3> QED BY <3>1, LogsSame
  <2> QED BY <2>1, <2>2
<1>9. CASE ServeTick
  BY <1>9, LogsServed
<1>10. CASE TickAnswered
  BY <1>10, LogsStaged
<1>11. CASE HandleShowPending
  BY <1>11, LogsShowPending
<1>12. ASSUME NEW p \in ProfilesOf, SwitchProfile(p)
       PROVE  LogsInv'
  <2>1. ActivateProfile(p) /\ submit' = submit
    BY <1>12 DEF SwitchProfile
  <2>2. submit' # Null => submit'.profile \in ProfilesOf
    BY <2>1 DEF LogsInv, LogsShape
  <2> QED BY <2>1, <2>2, LogsActivated
<1>13. CASE Arrive
  BY <1>13, LogsArrive
<1>14. CASE RuleCreated
  <2>1. submit # Null /\ ActivateProfile(submit.profile) /\ submit' = Null
    BY <1>14 DEF RuleCreated
  <2>2. submit.profile \in ProfilesOf
    BY <2>1 DEF LogsInv, LogsShape
  <2> QED BY <2>1, <2>2, LogsActivated
<1>15. CASE DevicesAnswered \/ HandleOpenQuickRule \/ HandleQuickRuleSheetChange
            \/ HandleActionKeyDown \/ HandleSubmitRule \/ RuleSkipped \/ RuleFailed \/ TickFailed
  BY <1>15, LogsAside
<1>16. CASE UNCHANGED vars
  <2>1. UNCHANGED <<activePid, listing, query, fetch, arrived, mixed, tick, submit>>
    BY <1>16 DEF vars
  <2> QED BY <2>1, LogsSame
<1> QED BY <1>1, <1>2, <1>3, <1>4, <1>5, <1>6, <1>7, <1>8, <1>9, <1>10, <1>11, <1>12, <1>13,
           <1>14, <1>15, <1>16 DEF Next, RefreshControls

LEMMA SolidIsWhole ==
    ASSUME NEW S \in SUBSET Matching(arrived[activePid], activePid, query),
           arrived[activePid] \in Int, Solid(S, arrived[activePid], activePid, query)
    PROVE  Whole(S)
<1> DEFINE k == arrived[activePid]
<1>1. \A r \in S : r[1] = activePid /\ Matches(query, r)
  <2>1. ASSUME NEW r \in S
        PROVE  r[1] = activePid /\ Matches(query, r)
    <3>1. r = <<activePid, r[2]>> /\ r[1] = activePid /\ r[2] \in Hits(k, activePid, query)
      BY OwnRow
    <3> QED BY <3>1 DEF Hits
  <2> QED BY <2>1
<1>2. \A n \in 1 .. k : Matches(query, <<activePid, n>>) => n \in Hits(k, activePid, query)
  BY DEF Hits
<1> QED BY <1>1, <1>2 DEF Whole, Solid

\* What a later page, a refresh, a merge or a rule leaves of the list has no hole, and the
\* staged rows continue it without one.
LEMMA LogsExact == LogsInv => NoGap /\ PillExact
<1> SUFFICES ASSUME LogsInv PROVE NoGap /\ PillExact
  OBVIOUS
<1> DEFINE k == arrived[activePid]
<1>0. k \in Int /\ LogsShape
  BY DEF LogsInv, LogsShape
<1>1. ASSUME Single
      PROVE  Listed(listing.logs, k, activePid, query)
  BY <1>1 DEF LogsInv, LogsHeld, Held
<1>2. ASSUME Single
      PROVE  Whole(RowsOf(listing.logs))
  <2>1. RowsOf(listing.logs) \in SUBSET Matching(k, activePid, query)
    BY <1>0, <1>1, <1>2, RowsIn DEF Listed
  <2> QED BY <1>0, <1>1, <1>2, <2>1, SolidIsWhole DEF Listed
<1>3. ASSUME ~mixed, listing.pending # <<>>, ~listing.overflow
      PROVE  /\ RowsOf(listing.pending) \cap RowsOf(listing.logs) = {}
             /\ \A r \in RowsOf(listing.pending), s \in RowsOf(listing.logs) : r[2] > s[2]
             /\ Whole(RowsOf(listing.pending) \cup RowsOf(listing.logs))
  <2>1. Single
    BY <1>0, <1>3 DEF LogsShape, Single
  <2>2. GoesBefore(listing.pending, listing.logs, k, activePid, query)
    BY <1>3, <2>1 DEF LogsInv, LogsHeld, Held
  <2> DEFINE P == RowsOf(listing.pending)
             S == RowsOf(listing.logs)
  <2>3. /\ P \subseteq Matching(k, activePid, query) /\ S \subseteq Matching(k, activePid, query)
        /\ Above(P, S) /\ Solid(P \cup S, k, activePid, query)
    BY <1>0, <1>1, <2>1, <2>2, RowsIn DEF Listed, GoesBefore
  <2> HIDE DEF P, S
  <2>4. \A r \in P : r[2] \in Nat
    BY <1>0, <2>3, NumbersOf
  <2>5. P \cap S = {}
    <3>1. \A r \in P \cap S : r[2] > r[2]
      BY <2>3 DEF Above
    <3> QED BY <2>4, <3>1
  <2> DEFINE U == P \cup S
  <2>6. U \in SUBSET Matching(k, activePid, query) /\ Solid(U, k, activePid, query)
    BY <2>3
  <2> HIDE DEF U
  <2>7. Whole(U)
    BY <1>0, <2>6, SolidIsWhole
  <2> QED BY <2>3, <2>5, <2>7 DEF Above, P, S, U
<1> QED BY <1>2, <1>3 DEF NoGap, PillExact, Single

\* In the order of time the list has no hole while it stems from one reading: paging while
\* queries are being logged, refreshing, merging staged rows and adding rules never skip a
\* row (Logs.tsx).
THEOREM LogsWithoutGap == ASSUME NullHasNoPage PROVE Spec => []NoGap
<1>1. Init => LogsInv
  BY LogsInit
<1>2. LogsInv /\ [Next]_vars => LogsInv'
  BY LogsStep
<1>3. LogsInv => NoGap
  BY LogsExact
<1> QED BY <1>1, <1>2, <1>3, PTL DEF Spec

\* The rows behind the pill are new, newer than the list, and continue it (queryLogsDiff.ts).
THEOREM PillTellsTheTruth == ASSUME NullHasNoPage PROVE Spec => []PillExact
<1>1. Init => LogsInv
  BY LogsInit
<1>2. LogsInv /\ [Next]_vars => LogsInv'
  BY LogsStep
<1>3. LogsInv => PillExact
  BY LogsExact
<1> QED BY <1>1, <1>2, <1>3, PTL DEF Spec
=============================================================================
