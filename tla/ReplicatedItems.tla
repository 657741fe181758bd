---------------------------- MODULE ReplicatedItems ----------------------------
(***************************************************************************)
(* What an engine promises about its item rows: each is a replica of a     *)
(* register whose versions the server keeps in a log.  Fetching, deciding, *)
(* writing the app's storage and saving are one step here, nobody waits    *)
(* for a lock and every response is current.                               *)
(*                                                                         *)
(* SyncEngine implements this: see ItemsAreReplicas there.                 *)
(***************************************************************************)
EXTENDS Integers, Sequences

CONSTANTS Keys, Values, NoKey

VARIABLES
    log,    \* the accepted values of each item; version = length
    row,    \* version, base version and state of each item
    sent    \* the item with an accepted upload that is not recorded yet, or NoKey

vars == <<log, row, sent>>

Row == [version : Nat, base : Nat, state : {"clean", "dirty", "conflict"}]

NewRow == [version |-> 0, base |-> 0, state |-> "clean"]

Init ==
    /\ log = [k \in Keys |-> <<>>]
    /\ row = [k \in Keys |-> NewRow]
    /\ sent = NoKey

\* Another device writes the item, or an upload whose response is lost.
Publish(k, v) ==
    /\ log' = [log EXCEPT ![k] = Append(@, v)]
    /\ UNCHANGED <<row, sent>>

\* The app has changed the value.
Edit(k) ==
    /\ sent # k /\ row[k].state = "clean"
    /\ row' = [row EXCEPT ![k].state = "dirty"]
    /\ UNCHANGED <<log, sent>>

\* A value goes out only over the version that it was made from.
Upload(k, v) ==
    /\ sent = NoKey /\ row[k].state = "dirty" /\ row[k].version = Len(log[k])
    /\ log' = [log EXCEPT ![k] = Append(@, v)]
    /\ sent' = k
    /\ UNCHANGED row

\* The row takes the version that was uploaded, and nothing has moved it since.
Record(k) ==
    /\ sent = k
    /\ LET version == row[k].version + 1
       IN row' = [row EXCEPT ![k] = [version |-> version, base |-> version, state |-> "clean"]]
    /\ sent' = NoKey
    /\ UNCHANGED log

\* The call or the process ends before that.
Forget ==
    /\ sent # NoKey
    /\ sent' = NoKey
    /\ UNCHANGED <<log, row>>

\* A newer version is taken as it is, or merged with the app's value.
Take(k, version, state) ==
    /\ sent # k /\ row[k].state # "conflict" /\ state \in {"clean", "dirty"}
    /\ version \in row[k].version + 1..Len(log[k])
    /\ row' = [row EXCEPT ![k] = [version |-> version, base |-> version, state |-> state]]
    /\ UNCHANGED <<log, sent>>

\* It conflicts with the app's value, or with one that is in conflict already.
Disagree(k, version) ==
    /\ sent # k
    /\ version \in row[k].version + 1..Len(log[k])
    /\ row' = [row EXCEPT ![k] = [version |-> version, base |-> row[k].base, state |-> "conflict"]]
    /\ UNCHANGED <<log, sent>>

\* The app keeps a value of its own, or takes the remote one.
Resolve(k) ==
    /\ sent # k /\ row[k].state = "conflict"
    /\ \/ row' = [row EXCEPT ![k].state = "dirty"]
       \/ LET version == row[k].version
          IN row' = [row EXCEPT ![k] = [version |-> version, base |-> version, state |-> "clean"]]
    /\ UNCHANGED <<log, sent>>

\* The repair step of the README.
Reset ==
    /\ row' = [k \in Keys |-> NewRow]
    /\ sent' = NoKey
    /\ UNCHANGED log

Next ==
    \/ \E k \in Keys :
          \/ \E v \in Values : Publish(k, v) \/ Upload(k, v)
          \/ Edit(k) \/ Record(k) \/ Resolve(k)
          \/ \E version \in 1..Len(log[k]) :
                Disagree(k, version) \/ \E state \in {"clean", "dirty"} : Take(k, version, state)
    \/ Forget \/ Reset

Spec == Init /\ [][Next]_vars
=============================================================================
