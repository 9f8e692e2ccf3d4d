------------------------------ MODULE AppStore ------------------------------
(***************************************************************************)
(* The web application's global store (app/src/store/general.ts) as a      *)
(* record, and the operations the pages perform on it.  A profile is a     *)
(* record with at least a field id, which stands for both keys the code    *)
(* compares profiles by (id and profile_id: one profile has one of each).  *)
(***************************************************************************)
EXTENDS Naturals, Sequences, FiniteSetsExt

CONSTANT Null   \* JavaScript's null

\* The part of the store that is not persisted, as a page load finds it, with
\* the persisted active profile.
FreshStore(active) ==
    [account |-> Null, profiles |-> <<>>, activeProfile |-> active,
     subscriptionStatus |-> Null]

\* Mutations put the refetched profile here; it is mirrored into the list.
SetActiveProfile(st, profile) ==
    [st EXCEPT
        !.activeProfile = profile,
        !.profiles = IF profile = Null THEN @
                     ELSE [i \in DOMAIN @ |->
                              IF @[i].id = profile.id THEN profile ELSE @[i]]]

\* The active profile's new copy, or the first of the list; an empty list
\* leaves it alone.
RestoreActiveProfile(st, list) ==
    LET same == {i \in DOMAIN list :
                    st.activeProfile # Null /\ list[i].id = st.activeProfile.id}
    IN [st EXCEPT !.activeProfile = IF same # {} THEN list[Min(same)]
                                    ELSE IF list # <<>> THEN list[1]
                                    ELSE @]

\* setProfiles followed by restoreActiveProfile, as every loader does it.
LoadProfiles(st, list) == RestoreActiveProfile([st EXCEPT !.profiles = list], list)

\* Mutant: the logout leaves the account and its profiles to the next load.
LogoutKeepsData(st) == [st EXCEPT !.activeProfile = Null, !.subscriptionStatus = Null]

\* What a logout clears.
PerformLogoutSideEffects(st) == FreshStore(Null)

CutOff == {"inactive", "pending_delete"}

IsCutOff(st) == st.subscriptionStatus \in CutOff

IsRestricted(st) == st.subscriptionStatus \in CutOff \cup {"limited_access"}

=============================================================================
