---------------------------- MODULE AuthRegister ----------------------------
(***************************************************************************)
(* What the authentication service promises its readers, whatever the      *)
(* tasks that carry it out do: a register that is written by one writer,   *)
(* and whose readers learn of it in two ways.  A notification carries what *)
(* the register holds when it is written to the reader; the answer to a    *)
(* question carries something the register held at some moment since the   *)
(* question was asked, and not necessarily the latest.  A value of the     *)
(* register is the number of the change that put it there.                 *)
(***************************************************************************)
EXTENDS Naturals

CONSTANTS
    Reader,      \* sessions with browsers
    NotAsked     \* no question of the reader is open, not a number

VARIABLES
    latest,  \* what the register holds
    asked,   \* what it held when the reader's open question was asked
    view     \* what the reader was last told

registerVars == <<latest, asked, view>>

RegisterInit ==
    /\ latest = 0
    /\ asked = [r \in Reader |-> NotAsked]
    /\ view = [r \in Reader |-> 0]

Write == latest' = latest + 1 /\ UNCHANGED <<asked, view>>

Notify(r) == view' = [view EXCEPT ![r] = latest] /\ UNCHANGED <<latest, asked>>

Ask(r) ==
    /\ asked[r] = NotAsked
    /\ asked' = [asked EXCEPT ![r] = latest]
    /\ UNCHANGED <<latest, view>>

Reply(r) ==
    /\ asked[r] # NotAsked
    /\ \E v \in asked[r] .. latest : view' = [view EXCEPT ![r] = v]
    /\ asked' = [asked EXCEPT ![r] = NotAsked]
    /\ UNCHANGED latest

\* The question is dropped with the connection it came over.
Drop(r) ==
    /\ asked[r] # NotAsked
    /\ asked' = [asked EXCEPT ![r] = NotAsked]
    /\ UNCHANGED <<latest, view>>

RegisterNext ==
    \/ Write
    \/ \E r \in Reader : Notify(r) \/ Ask(r) \/ Reply(r) \/ Drop(r)

RegisterSpec == RegisterInit /\ [][RegisterNext]_registerVars
=============================================================================
