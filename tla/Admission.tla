----------------------------- MODULE Admission ------------------------------
(***************************************************************************)
(* What a client of this program and its server promise each other: the    *)
(* client asks once to be admitted, with its first message.  The question  *)
(* reaches the server, the answer comes back, and hearing it admits the    *)
(* client.  Neither gets lost as long as both ends keep the connection.    *)
(***************************************************************************)
EXTENDS Naturals

VARIABLES place,  \* where the question, or the answer to it, is
          joined, \* both ends have the connection
          stage   \* the client's stage: 1 when it is admitted

admissionVars == <<place, joined, stage>>

AdmissionInit == place = "none" /\ joined = FALSE /\ stage = 0

Ask ==
    /\ place = "none" /\ place' = "toServer"
    /\ joined' = TRUE /\ stage' = 0

\* An end that still has the connection goes on with it when the other is gone.
Moves(from, to) ==
    /\ place = from /\ place' = to
    /\ UNCHANGED joined

Reaches == Moves("toServer", "atServer") /\ UNCHANGED stage
IsAnswered == Moves("atServer", "toClient") /\ UNCHANGED stage
Returns == Moves("toClient", "atClient") /\ UNCHANGED stage
Hear == Moves("atClient", "heard") /\ stage' = 1

\* An end loses the connection, and with it what was on its side.
Break ==
    /\ joined' = FALSE /\ UNCHANGED stage
    /\ \/ place' = place
       \/ place \notin {"none", "heard"} /\ place' = "lost"

AdmissionNext == Ask \/ Reaches \/ IsAnswered \/ Returns \/ Hear \/ Break

AdmissionSpec == AdmissionInit /\ [][AdmissionNext]_admissionVars
=============================================================================
