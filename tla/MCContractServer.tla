-------------------------- MODULE MCContractServer --------------------------
(***************************************************************************)
(* B has two orders on one connection; A is restarted, as A2, with the     *)
(* deposit of its first run, and matches the other one.                    *)
(***************************************************************************)
EXTENDS ContractServer

MCConnection == {"A", "A2", "B"}
MCInstance == {"a1", "a2", "b1", "b2"}
MCContract == {"first", "second"}
MCBuyer == [c \in MCContract |-> IF c = "first" THEN "a1" ELSE "b2"]
MCSeller == [c \in MCContract |-> IF c = "first" THEN "b1" ELSE "a2"]
MCHost ==
    [i \in MCInstance |-> CASE i = "a1" -> "A" [] i = "a2" -> "A2" [] i \in {"b1", "b2"} -> "B"]
MCDeposit ==
    [i \in MCInstance |-> CASE i \in {"a1", "a2"} -> "coin A"
                            [] i = "b1" -> "coin B1" [] i = "b2" -> "coin B2"]
=============================================================================
