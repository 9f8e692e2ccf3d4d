--------------------------- MODULE CustomRulesPage --------------------------
(***************************************************************************)
(* The custom rules page (app/src/pages/custom_rules): the composer with   *)
(* its tokens, the rows with their delayed delete, the selection and the   *)
(* bulk delete, the edit dialog, the groups, and the drag and drop of rows *)
(* and groups with its optimistic order.                                   *)
(***************************************************************************)
EXTENDS AppPages

CONSTANTS Values,     \* what the user may type
          BadValues,  \* values the server refuses
          Hits,       \* values the search finds
          Groups,     \* names of groups
          MaxBatch    \* MAX_RULES_PER_BATCH

Tabs == {"block", "allow"}
NoTokens == [t \in Tabs |-> {}]

\* The rows of a tab, in stored order: the props the card gets.
Rows(p, st) ==
    IF st.activeProfile = Null THEN <<>>
    ELSE SelectSeq(st.activeProfile.rules,
                   LAMBDA r : r.list = p.tab /\ (p.search => r.id[2] \in Hits))

CustomRulesInit(st) ==
    LET p == [name |-> "custom-rules", tab |-> "block", search |-> FALSE, loading |-> FALSE,
              tokens |-> NoTokens, selected |-> {}, editing |-> Null, local |-> <<>>,
              groupOrder |-> <<>>, dragging |-> Null, naming |-> FALSE, dropRule |-> Null,
              removing |-> {}, profile |-> Null]
    IN [p EXCEPT !.local = Rows(p, st), !.profile = st.activeProfile.id,
                 !.groupOrder = st.activeProfile.groups]

\* The effects of a render with store st: the card takes over the rows and groups of
\* its props; a page without rows loses its search box; another profile empties the
\* composer and the selection.
CustomRulesEffects(p, st) ==
    LET q == IF st.activeProfile = Null \/ st.activeProfile.id = p.profile THEN p
             ELSE [p EXCEPT !.tokens = NoTokens, !.selected = {}, !.profile = st.activeProfile.id]
    IN [q EXCEPT !.local = Rows(q, st),
                 !.groupOrder = IF st.activeProfile = Null THEN @ ELSE st.activeProfile.groups]

Rerender(p) == Local(CustomRulesEffects(p, store))

\* The dialog is modal, and so is a drag.
Rules ==
    /\ Click("custom-rules") /\ page.editing = Null /\ page.dragging = Null
    /\ ~IsRestricted(store)

Draggable(p) == ~p.search /\ p.selected = {} /\ ~p.loading

\* The handlers that set the page's loading flag, and those that do not.
Busy(kind, ops, extra) ==
    Start(Handler(kind, ops, FALSE, extra), CustomRulesEffects([page EXCEPT !.loading = TRUE], store))
-----------------------------------------------------------------------------
(* The composer *)

Tokens == page.tokens[page.tab]
Fresh(tokens) == {t.value : t \in {u \in tokens : ~u.error}}
TokenValues(tokens) == {t.value : t \in tokens}

ComposerFree == Rules /\ ~page.loading

\* addTokens: a value twice is skipped, and so is one past the batch limit.
AddToken(v) ==
    /\ ComposerFree
    /\ v \notin TokenValues(Tokens) /\ Cardinality(Tokens) < MaxBatch
    /\ Rerender([page EXCEPT !.tokens[page.tab] = @ \cup {[value |-> v, error |-> FALSE]}])

\* handleChange: a token removed, or all of them.
RemoveTokens(vs) ==
    /\ ComposerFree /\ vs # {} /\ vs \subseteq TokenValues(Tokens)
    /\ Rerender([page EXCEPT !.tokens[page.tab] = {t \in @ : t.value \notin vs}])

\* handleComposerSubmit: the tokens already marked as refused stay where they are.
ComposerSubmit ==
    /\ ComposerFree /\ Fresh(Tokens) # {}
    /\ Busy("compose", <<[do |-> "addRules", list |-> page.tab, arg |-> Fresh(Tokens)]>>,
            [tab |-> page.tab, tokens |-> Tokens, created |-> {}, skipped |-> {}])

\* Mutant: an answer that created something empties the composer.
ComposedClears(p, e) == [p EXCEPT !.tokens[e.tab] = {}, !.loading = FALSE]

\* What the composer keeps: the tokens it did not send and the ones that were
\* skipped, marked.
Composed(p, e) ==
    [p EXCEPT !.tokens[e.tab] = {t \in e.tokens : t.error}
                                \cup {[value |-> v, error |-> TRUE] : v \in e.skipped},
              !.loading = FALSE]

\* Mutant: the profile is read back only if nothing was skipped.
ComposerAnsweredAll(c) ==
    /\ c.kind = "compose" /\ c.ops # <<>> /\ c.id \in DOMAIN db
    /\ LET op == Head(c.ops)
           has == {r[2] : r \in RuleIds(db[c.id])}
           created == op.arg \ (BadValues \cup has)
           e == [c.extra EXCEPT !.created = created, !.skipped = op.arg \ created]
       IN /\ db' = [db EXCEPT ![c.id] = Serve([op EXCEPT !.arg = created], @)]
          /\ IF created # op.arg
             THEN /\ Finished(c)
                  /\ page' = IF c.mine THEN CustomRulesEffects(Composed(page, e), store) ELSE page
             ELSE /\ calls' = (calls \ {c}) \cup {[c EXCEPT !.ops = <<>>, !.sent = TRUE, !.extra = e]}
                  /\ UNCHANGED page
    /\ UNCHANGED <<store, answers, behind, clicks, faults>>

\* The answer of the batch: the profile is read back only if something was created.
ComposerAnswered(c) ==
    /\ c.kind = "compose" /\ c.ops # <<>> /\ c.id \in DOMAIN db
    /\ LET op == Head(c.ops)
           has == {r[2] : r \in RuleIds(db[c.id])}
           created == op.arg \ (BadValues \cup has)
           e == [c.extra EXCEPT !.created = created, !.skipped = op.arg \ created]
       IN IF created = {}
          THEN /\ Finished(c)
               /\ page' = IF c.mine THEN CustomRulesEffects(Composed(page, e), store) ELSE page
               /\ UNCHANGED db
          ELSE /\ db' = [db EXCEPT ![c.id] = Serve([op EXCEPT !.arg = created], @)]
               /\ calls' = (calls \ {c}) \cup {[c EXCEPT !.ops = <<>>, !.sent = TRUE, !.extra = e]}
               /\ UNCHANGED page
    /\ UNCHANGED <<store, answers, behind, clicks, faults>>
-----------------------------------------------------------------------------
(* Rows *)

Shown == {page.local[i].id : i \in DOMAIN page.local}

\* A row has its buttons while nothing is selected and it is not fading.
RowActions(r) == page.selected = {} /\ r \notin page.removing

\* handleEntryDelete: the row fades for 300 ms before the request goes out, to the
\* profile the row was shown in.
EntryDelete(r) ==
    /\ Rules /\ r \in Shown /\ RowActions(r)
    /\ Start(Handler("deleteTimer", <<[do |-> "deleteRules", arg |-> {r}]>>, FALSE, Null),
             [page EXCEPT !.removing = @ \cup {r}])

\* The timer fires, mounted or not: handleDeleteRule.
DeleteFires(c) ==
    /\ c.kind = "deleteTimer"
    /\ calls' = (calls \ {c}) \cup {[c EXCEPT !.kind = "delete"]}
    /\ page' = IF c.mine
               THEN CustomRulesEffects([page EXCEPT !.loading = TRUE, !.removing = @ \ Head(c.ops).arg], store)
               ELSE page
    /\ UNCHANGED <<store, answers, db, behind, clicks, faults>>

\* handleEntryCheck, and the search bar's select all.
Select(ids) ==
    /\ Rules /\ ids \subseteq Shown /\ ids # page.selected
    /\ Rerender([page EXCEPT !.selected = ids])

\* handleBulkDelete: one request per selected row, all at once.
BulkDelete ==
    /\ Rules /\ page.selected # {} /\ ~page.loading
    /\ Busy("bulk", <<[do |-> "deleteRules", arg |-> page.selected]>>, Null)

\* Some of these requests succeed and one fails: nothing is read back.
BulkPartly(c) ==
    /\ c.kind = "bulk" /\ c.ops # <<>> /\ c.id \in DOMAIN db
    /\ \E gone \in SUBSET (Head(c.ops).arg \cap RuleIds(db[c.id])) :
         /\ gone # {} /\ gone # Head(c.ops).arg
         /\ db' = [db EXCEPT ![c.id] = Serve([do |-> "deleteRules", arg |-> gone], @)]
         /\ IF Accepts(Head(c.ops), c) THEN faults > 0 /\ faults' = faults - 1
            ELSE UNCHANGED faults
    /\ Finished(c)
    /\ Missed(c.id)
    /\ page' = IF c.mine THEN CustomRulesEffects([page EXCEPT !.loading = FALSE], store) ELSE page
    /\ UNCHANGED <<store, clicks>>

\* The edit dialog holds the rule it was opened with.
EditOpen(i) ==
    /\ Rules /\ i \in DOMAIN page.local /\ RowActions(page.local[i].id)
    /\ Rerender([page EXCEPT !.editing = page.local[i]])

EditCancel ==
    /\ Click("custom-rules") /\ page.editing # Null /\ ~page.loading
    /\ Rerender([page EXCEPT !.editing = Null])

\* handleSaveEdit: an unchanged form just closes the dialog.
EditSave(list, group) ==
    /\ Click("custom-rules") /\ page.editing # Null /\ ~page.loading
    /\ group \in {"", page.editing.group} \cup ToSet(Active.groups)
    /\ IF page.editing = [page.editing EXCEPT !.list = list, !.group = group]
       THEN Rerender([page EXCEPT !.editing = Null])
       ELSE Busy("edit", <<[do |-> "editRule", arg |-> page.editing.id,
                            list |-> list, group |-> group]>>, Null)
-----------------------------------------------------------------------------
(* Groups.  These requests do not set the loading flag. *)

GroupOps(op) == Start(Handler("group", <<op>>, FALSE, Null), page)

CreateGroup(g) ==
    /\ Rules /\ Draggable(page) /\ page.naming /\ page.dropRule = Null
    /\ Start(Handler("group", <<[do |-> "addGroup", arg |-> g]>>, FALSE, Null),
             [page EXCEPT !.naming = FALSE])

StartNaming ==
    /\ Rules /\ Draggable(page) /\ ~page.naming
    /\ Local([page EXCEPT !.naming = TRUE])

CancelNaming ==
    /\ Rules /\ Draggable(page) /\ page.naming
    /\ Local([page EXCEPT !.naming = FALSE, !.dropRule = Null])

RenameGroup(from, to) ==
    /\ Rules /\ from \in ToSet(page.groupOrder) /\ to # from
    /\ GroupOps([do |-> "renameGroup", arg |-> from, group |-> to])

\* confirmDeleteGroup, and the group's note, which creates the group if need be.
DeleteGroup(g) ==
    /\ Rules /\ g \in ToSet(page.groupOrder) /\ ~page.loading
    /\ GroupOps([do |-> "deleteGroup", arg |-> g])

SaveGroupNote(g) ==
    /\ Rules /\ g \in ToSet(page.groupOrder) /\ ~page.loading
    /\ GroupOps([do |-> "addGroup", arg |-> g])

\* A group header dropped on another one.
ReorderGroups(i, j) ==
    LET order == [page.groupOrder EXCEPT ![i] = page.groupOrder[j], ![j] = page.groupOrder[i]] IN
    /\ Rules /\ Draggable(page) /\ i # j
    /\ {i, j} \subseteq DOMAIN page.groupOrder
    /\ Start(Handler("reorderGroups", <<[do |-> "orderGroups", arg |-> order]>>, TRUE, Null),
             [page EXCEPT !.groupOrder = order])
-----------------------------------------------------------------------------
(* Dragging a row *)

Place(seq, id) == CHOOSE i \in DOMAIN seq : seq[i].id = id
InCard(id) == \E i \in DOMAIN page.local : page.local[i].id = id
RowIds(seq) == [i \in DOMAIN seq |-> seq[i].id]

\* handleReorder and handleMoveRule send the whole profile's order: the other list
\* keeps its own.
FullOrder(seq) ==
    LET other == RowIds(SelectSeq(Active.rules, LAMBDA r : r.list # page.tab))
    IN IF page.tab = "block" THEN RowIds(seq) \o other ELSE other \o RowIds(seq)

Order(seq) == [do |-> "order", arg |-> FullOrder(seq)]

MoveRule(seq, r, group, p) ==
    Start(Handler("move", <<[do |-> "editRule", arg |-> r, list |-> page.tab, group |-> group],
                            Order(seq)>>, TRUE, RuleIds(Active)), p)

\* The sections a row can be dropped on.
DropSections == {""} \cup ToSet(page.groupOrder)

DragStart(r) ==
    /\ Rules /\ Draggable(page) /\ r \in Shown
    /\ Local([page EXCEPT !.dragging = r])

\* handleDragOver: over another group the row is relabelled and put at its end.
DragOver(group) ==
    /\ page.name = "custom-rules" /\ page.dragging # Null /\ InCard(page.dragging)
    /\ LET i == Place(page.local, page.dragging)
           rest == RemoveAt(page.local, i)
           ends == {0} \cup {j \in DOMAIN rest : rest[j].group = group}
       IN /\ page.local[i].group # group
          /\ group \in DropSections
          /\ Local([page EXCEPT !.local =
                       InsertAt(rest, Max(ends) + 1, [page.local[i] EXCEPT !.group = group])])
    /\ UNCHANGED clicks

\* handleDragEnd over row o (or over its own place): arrayMove, then whichever of the
\* two requests the change needs.  r may have left the list in the meantime.
DragEnd(o) ==
    /\ page.name = "custom-rules" /\ page.dragging # Null
    /\ o \in Shown
    /\ LET r == page.dragging
           moves == InCard(r) /\ o # r
           seq == IF moves
                  THEN InsertAt(RemoveAt(page.local, Place(page.local, r)),
                                Place(page.local, o), page.local[Place(page.local, r)])
                  ELSE page.local
           before == IF r \in RuleIds(Active) THEN RuleOf(Active, r).group ELSE ""
           after == IF InCard(r) THEN seq[Place(seq, r)].group ELSE ""
           p == [page EXCEPT !.dragging = Null, !.local = seq]
       IN IF after # before THEN MoveRule(seq, r, after, p)
          ELSE IF RowIds(seq) # RowIds(Rows(page, store))
          THEN Start(Handler("reorder", <<Order(seq)>>, TRUE, RuleIds(Active)), p)
          ELSE Local(p)
    /\ UNCHANGED clicks

\* Dropped outside, or on the zone that asks for a new group's name.
DragDrop(zone) ==
    /\ page.name = "custom-rules" /\ page.dragging # Null
    /\ Local([page EXCEPT !.local = Rows(page, store), !.dragging = Null,
                          !.naming = @ \/ zone, !.dropRule = IF zone THEN page.dragging ELSE @])
    /\ UNCHANGED clicks

\* confirmNewGroup for a dropped row.
NameDropped(g) ==
    /\ Rules /\ Draggable(page) /\ page.naming /\ page.dropRule # Null
    /\ MoveRule(page.local, page.dropRule, g,
                [page EXCEPT !.naming = FALSE, !.dropRule = Null])
-----------------------------------------------------------------------------
ShowTab(t) ==
    /\ Click("custom-rules") /\ page.editing = Null /\ page.dragging = Null
    /\ t \in Tabs \ {page.tab}
    /\ Rerender([page EXCEPT !.tab = t, !.selected = {}, !.naming = FALSE, !.dropRule = Null])

Search ==
    /\ Rules /\ page.local # <<>>
    /\ Rerender([page EXCEPT !.search = ~@])

\* What each handler leaves: its finally, and on success its own cleanup.
AfterCustomRules(c, p, ok) ==
    CASE c.kind = "compose" /\ ok -> Composed(p, c.extra)
      [] c.kind = "bulk" /\ ok -> [p EXCEPT !.selected = {}, !.loading = FALSE]
      [] c.kind = "edit" /\ ok -> [p EXCEPT !.editing = Null, !.loading = FALSE]
      [] c.kind = "delete" \/ (c.kind \in {"compose", "bulk", "edit"} /\ ~ok) ->
           [p EXCEPT !.loading = FALSE]
      [] OTHER -> p

CustomRulesNext ==
    \/ ComposerSubmit \/ BulkDelete \/ EditCancel \/ StartNaming \/ CancelNaming \/ Search
    \/ \E v \in Values : AddToken(v)
    \/ \E vs \in SUBSET Values : RemoveTokens(vs)
    \/ page.name = "custom-rules" /\ \E ids \in SUBSET Shown : Select(ids)
    \/ page.name = "custom-rules" /\ \E r \in Shown : EntryDelete(r) \/ DragStart(r) \/ DragEnd(r)
    \/ page.name = "custom-rules" /\ \E i \in DOMAIN page.local : EditOpen(i)
    \/ \E list \in Tabs, g \in Groups \cup {""} : EditSave(list, g)
    \/ \E g \in Groups : CreateGroup(g) \/ DeleteGroup(g) \/ SaveGroupNote(g) \/ NameDropped(g)
    \/ \E from, to \in Groups : RenameGroup(from, to)
    \/ page.name = "custom-rules" /\ \E i, j \in DOMAIN page.groupOrder : ReorderGroups(i, j)
    \/ \E g \in Groups \cup {""} : DragOver(g)
    \/ \E zone \in BOOLEAN : DragDrop(zone)
    \/ \E t \in Tabs : ShowTab(t)
    \/ \E c \in calls : ComposerAnswered(c) \/ DeleteFires(c) \/ BulkPartly(c)
-----------------------------------------------------------------------------

\* No entry the user typed disappears without having become a rule: while the user
\* does nothing and the profile stays, a token leaves the composer only when the
\* answer being handled created it, unless the composer's batch had another handler
\* beside it, which clears the same loading flag and lets the user type meanwhile.
ComposersAlone ==
    \A c \in calls \cup {answers[i].call : i \in DOMAIN answers} :
        c.kind = "compose" /\ c.mine => c.alone

TokensAccounted ==
    [][page.name = "custom-rules" /\ page'.name = "custom-rules" /\ clicks' = clicks
       /\ page'.profile = page.profile /\ ComposersAlone =>
         \A t \in Tabs : TokenValues(page.tokens[t]) \subseteq
            TokenValues(page'.tokens[t])
            \cup UNION {answers[i].call.extra.created :
                           i \in {j \in DOMAIN answers : answers[j].call.kind = "compose"}}]_pageVars
=============================================================================
