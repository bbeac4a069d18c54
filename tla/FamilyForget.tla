---------------------------- MODULE FamilyForget ----------------------------
(***************************************************************************)
(* `store forget` beside StoreLink: it derives from the registry and the   *)
(* bindings which clones still use the family, and erases the family when  *)
(* it finds none.                                                          *)
(* src/src/session/workflow/store_family.rs,                               *)
(* src/src/session/store/user_level.rs.                                    *)
(***************************************************************************)
EXTENDS StoreLink

CONSTANT Forgetters   \* forget commands, each run once

VARIABLES
    forget,    \* each forget command's step, family and --force
    linked     \* history: clones whose link succeeded, with no unlink begun since

forgetVars == <<vars, forget, linked>>

IdleForget == [at |-> "idle", fam |-> None, force |-> FALSE]

ForgetInit ==
    /\ Init
    /\ forget = [o \in Forgetters |-> IdleForget]
    /\ linked = {}

\* family_liveness: listed clones whose binding names the family back.
LiveEntries(f) == {c \in registry[f] : binding[c] = f}

\* forget_family_store with --yes: refuses while a listed clone is live unless
\* --force.  The inventory scan and the deletion come later.
ForgetDecide(o, f, force) ==
    /\ forget[o].at = "idle"
    /\ made[f]
    /\ LiveEntries(f) = {} \/ force
    /\ forget' = [forget EXCEPT ![o] = [at |-> "erase", fam |-> f, force |-> force]]
    /\ UNCHANGED <<vars, linked>>

\* remove_dir_all takes the files in whatever order the directory gives them.
ForgetErase(o) ==
    LET f == forget[o].fam IN
    /\ forget[o].at = "erase"
    /\ \/ /\ made[f]
          /\ made' = [made EXCEPT ![f] = FALSE]
          /\ UNCHANGED <<events, arts, registry>>
       \/ /\ registry[f] # {}
          /\ registry' = [registry EXCEPT ![f] = {}]
          /\ UNCHANGED <<events, arts, made>>
       \/ \E r \in events[f] :
             /\ events' = [events EXCEPT ![f] = @ \ {r}]
             /\ UNCHANGED <<arts, made, registry>>
       \/ \E h \in arts[f] :
             /\ arts' = [arts EXCEPT ![f] = @ \ {h}]
             /\ UNCHANGED <<events, made, registry>>
    /\ UNCHANGED <<dir, lock, binding, link, writer, acked, forget, linked>>

\* Everything is gone, or a file that came in between made the deletion fail.
ForgetEnd(o) ==
    /\ forget[o].at = "erase"
    /\ forget' = [forget EXCEPT ![o].at = "done"]
    /\ UNCHANGED <<vars, linked>>

\* A step of StoreLink, and what it means for the clones that are linked.
LinkingNext ==
    /\ Next
    /\ linked' = {c \in Clones :
                    /\ c \in linked \/ (binding'[c] # binding[c] /\ binding'[c] # None)
                    /\ \A p \in Links : ~(link'[p].clone = c /\ link'[p].at = "deregister")}
    /\ UNCHANGED forget

ForgetNext ==
    \/ \E o \in Forgetters, f \in Families, force \in BOOLEAN : ForgetDecide(o, f, force)
    \/ \E o \in Forgetters : ForgetErase(o) \/ ForgetEnd(o)
    \/ LinkingNext

ForgetSpec == ForgetInit /\ [][ForgetNext]_forgetVars

\* Without --force, forget takes a family for orphaned only when no clone that
\* was linked to it, and did not begin to unlink, is bound to it.
ForgetSparesLinked ==
    [][\A o \in Forgetters :
          (forget[o].at = "idle" /\ forget'[o].at = "erase" /\ ~forget'[o].force) =>
              \A c \in linked : binding[c] # forget'[o].fam]_forgetVars
=============================================================================
