------------------------------ MODULE Memberships ------------------------------
(***************************************************************************)
(* What membership of namespaces promises.  A device has a namespace's key *)
(* because it founded the namespace, or because it asked with an offer of  *)
(* a member that was open then, and a member admitted it while the offer   *)
(* and the request were still open.  Only then may it store the key.       *)
(* There are no calls, responses, secrets or clocks here.                  *)
(*                                                                         *)
(* Invites implements this: see AccessByInvite there.                      *)
(***************************************************************************)
CONSTANTS
    Devices, Namespaces, Shared, Creator,
    Offers,     \* what a member may hand out
    None        \* no offer, no namespace

VARIABLES
    access,     \* of each device to each namespace: "none" or "granted"
    offer,      \* the namespace that each offer is for, or None
    open,       \* the offers that may be used
    asked,      \* the offer with which a device asks to be admitted, or None
    stored      \* the namespaces whose key each device has stored

vars == <<access, offer, open, asked, stored>>

Init ==
    /\ access = [n \in Namespaces |->
                   [d \in Devices |-> IF n \in Shared \/ d # Creator[n] THEN "none" ELSE "granted"]]
    /\ offer = [i \in Offers |-> None]
    /\ open = {}
    /\ asked = [n \in Namespaces |-> [d \in Devices |-> None]]
    /\ stored = [d \in Devices |-> {}]

IsMember(n, d) == access[n][d] = "granted"

Grant(n, d) == access' = [access EXCEPT ![n][d] = "granted"]

\* The first member of a namespace; nobody can join one that does not exist.
Found(n, d) ==
    /\ \A e \in Devices : access[n][e] = "none"
    /\ Grant(n, d)
    /\ UNCHANGED <<offer, open, asked, stored>>

\* A new offer may have run out before it arrives.  A used one is never made again.
Offer(m, n, i) ==
    /\ n \in Shared /\ IsMember(n, m)
    /\ offer[i] = None
    /\ offer' = [offer EXCEPT ![i] = n]
    /\ open' \in {open, open \cup {i}}
    /\ UNCHANGED <<access, asked, stored>>

Withdraw(m, i) ==
    /\ i \in open /\ IsMember(offer[i], m)
    /\ open' = open \ {i}
    /\ UNCHANGED <<access, offer, asked, stored>>

\* One request of a device for a namespace is open at a time.
Ask(n, d, i) ==
    /\ i \in open /\ offer[i] = n
    /\ asked[n][d] = None
    /\ asked' = [asked EXCEPT ![n][d] = i]
    /\ UNCHANGED <<access, offer, open, stored>>

Admit(m, n, d) ==
    /\ IsMember(n, m)
    /\ asked[n][d] \in open
    /\ Grant(n, d)
    /\ asked' = [asked EXCEPT ![n][d] = None]
    /\ UNCHANGED <<offer, open, stored>>

Decline(m, n, d) ==
    /\ IsMember(n, m)
    /\ asked' = [asked EXCEPT ![n][d] = None]
    /\ UNCHANGED <<access, offer, open, stored>>

\* Time passes.
Lapse ==
    /\ open' \subseteq open
    /\ asked' \in [Namespaces -> [Devices -> Offers \cup {None}]]
    /\ \A n \in Namespaces, d \in Devices : asked'[n][d] \in {asked[n][d], None}
    /\ UNCHANGED <<access, offer, stored>>

Learn(n, d) ==
    /\ IsMember(n, d)
    /\ stored' = [stored EXCEPT ![d] = @ \cup {n}]
    /\ UNCHANGED <<access, offer, open, asked>>

Forget(d) ==
    /\ stored' = [stored EXCEPT ![d] = {}]
    /\ UNCHANGED <<access, offer, open, asked>>

Next ==
    \/ Lapse
    \/ \E d \in Devices :
          \/ Forget(d)
          \/ \E i \in Offers : Withdraw(d, i)
          \/ \E n \in Namespaces :
                \/ Found(n, d) \/ Learn(n, d)
                \/ \E i \in Offers : Offer(d, n, i) \/ Ask(n, d, i)
                \/ \E m \in Devices : Admit(m, n, d) \/ Decline(m, n, d)

Spec == Init /\ [][Next]_vars
=============================================================================
