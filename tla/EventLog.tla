------------------------------ MODULE EventLog ------------------------------
(***************************************************************************)
(* What the event store promises to its clients, with no files, no lock    *)
(* and no crashes of its own: a log addressed by idempotency key in which  *)
(* the first record stored under a key wins and is never replaced, and in  *)
(* which every answer a client gets agrees with the log.                   *)
(*                                                                         *)
(* The promise is the one of src/docs/storage-model.md, lines 1014-1018,   *)
(* and of the outcome type in src/src/session/store/event_store.rs.  The   *)
(* module EventStore is shown to implement it.                             *)
(***************************************************************************)
CONSTANTS
    Clients,    \* whoever calls record_event_once
    Keys,       \* idempotency keys
    Pays,       \* payload hashes
    Envs,       \* what eventRecordHash covers beside the payload
    Sigs        \* signer and signature bindings

VARIABLES
    log,        \* the record stored under each key
    req,        \* the call each client has under way
    reply       \* the last answer each client has got

vars == <<log, req, reply>>

Record == [pay : Pays, env : Envs, sig : Sigs]

Stored(k) == {r \in Record : log[k] = <<r>>}

Outcomes == {"Created", "Existing", "ExistingDivergentSignature", "Conflict"}

(***************************************************************************)
(* The one answer that is right for candidate r when a record e is already *)
(* stored.  A divergent signature is the same record, signed differently.  *)
(***************************************************************************)
Verdict(e, r) ==
    CHOOSE o \in Outcomes \ {"Created"} :
        /\ o = "Conflict" <=> e.pay # r.pay
        /\ o = "ExistingDivergentSignature" <=>
               e.pay = r.pay /\ e.env = r.env /\ e.sig # r.sig

Init ==
    /\ log = [k \in Keys |-> <<>>]
    /\ req = [c \in Clients |-> <<>>]
    /\ reply = [c \in Clients |-> "none"]

Request(c, k, r) ==
    /\ req[c] = <<>>
    /\ req' = [req EXCEPT ![c] = <<k, r, "busy">>]
    /\ reply' = [reply EXCEPT ![c] = "none"]
    /\ UNCHANGED log

\* The candidate becomes the record of its key, once, and only in an empty slot.
Store(c) ==
    \E k \in Keys, r \in Record :
        /\ req[c] = <<k, r, "busy">>
        /\ log[k] = <<>>
        /\ log' = [log EXCEPT ![k] = <<r>>]
        /\ req' = [req EXCEPT ![c] = <<k, r, "stored">>]
        /\ UNCHANGED reply

\* Created is answered only to the client whose own record was stored.
Confirm(c) ==
    \E k \in Keys, r \in Record :
        /\ req[c] = <<k, r, "stored">>
        /\ req' = [req EXCEPT ![c] = <<>>]
        /\ reply' = [reply EXCEPT ![c] = "Created"]
        /\ UNCHANGED log

Find(c) ==
    \E k \in Keys, r \in Record :
        /\ req[c] = <<k, r, "busy">>
        /\ \E e \in Stored(k) : reply' = [reply EXCEPT ![c] = Verdict(e, r)]
        /\ req' = [req EXCEPT ![c] = <<>>]
        /\ UNCHANGED log

\* An error or a crash ends the call; what was stored stays stored.
Fail(c) ==
    /\ req[c] # <<>> \/ reply[c] # "none"
    /\ req' = [req EXCEPT ![c] = <<>>]
    /\ reply' = [reply EXCEPT ![c] = "none"]
    /\ UNCHANGED log

Next ==
    \E c \in Clients :
        \/ \E k \in Keys, r \in Record : Request(c, k, r)
        \/ Store(c)
        \/ Confirm(c)
        \/ Find(c)
        \/ Fail(c)

Spec == Init /\ [][Next]_vars
=============================================================================
