--------------------------- MODULE CacheContract ----------------------------
(***************************************************************************)
(* What docs/architecture/candle-cache-write-transactions.md promises of   *)
(* one symbol's parquet, with no lock, no temporary file and no steps      *)
(* inside a transaction.  A client first holds a decision: the vendor's    *)
(* answer to an interval it asked for, or a candidate repaired from the    *)
(* exact file it read.  Then, at one instant, the decision is either       *)
(* applied to the file as it is at that instant, or dropped.  A repair     *)
(* decision may be applied only to the file it was taken on.               *)
(***************************************************************************)
EXTENDS CandleRows

CONSTANTS Clients, NoFile, Unreadable

VARIABLES
    file,       \* the published parquet
    decision    \* decision[c]: what client c holds

Files == {NoFile, Unreadable} \cup SUBSET Row
FileRows(f) == IF f \in {NoFile, Unreadable} THEN {} ELSE f

Nothing       == [type |-> "none"]
Download      == [type : {"download"}, from : Days, to : Days, answer : SUBSET Row]
RepairChoice  == [type : {"repair"}, basis : SUBSET Row, candidate : SUBSET Row]
Decision      == {Nothing} \cup Download \cup RepairChoice

cvars == <<file, decision>>

ContractInit ==
    /\ file \in Files
    /\ decision = [c \in Clients |-> Nothing]

Decide(c) ==
    /\ decision[c] = Nothing
    /\ decision'[c] \in Download \cup RepairChoice
    /\ decision' = [decision EXCEPT ![c] = decision'[c]]
    /\ UNCHANGED file

Drop(c) ==
    /\ decision' = [decision EXCEPT ![c] = Nothing]
    /\ UNCHANGED file

ApplyDownload(c) ==
    /\ decision[c] \in Download
    /\ file # Unreadable
    /\ file' = Overlay(FileRows(file), decision[c].from, decision[c].to,
                       decision[c].answer)
    /\ decision' = [decision EXCEPT ![c] = Nothing]

ApplyRepair(c) ==
    /\ decision[c] \in RepairChoice
    /\ file = decision[c].basis
    /\ file' = decision[c].candidate
    /\ decision' = [decision EXCEPT ![c] = Nothing]

ContractNext ==
    \E c \in Clients : Decide(c) \/ Drop(c) \/ ApplyDownload(c) \/ ApplyRepair(c)

ContractSpec == ContractInit /\ [][ContractNext]_cvars
=============================================================================
