---------------------------- MODULE MCAccountData ----------------------------
EXTENDS AccountData

(* The accounts a and c have the same login: c can register once a has been deleted. *)
MCLoginOf == [a \in Accounts |-> IF a = "b" THEN "bob" ELSE "alice"]
MCPeers == [a \in Accounts |-> CASE a = "a" -> {"b", "c"} [] a = "b" -> {"a"} [] OTHER -> {}]
MCSender == [m \in Messages |-> "b"]
MCRecipient == [m \in Messages |-> "a"]
RequestSymmetry == Permutations(Requests)
=============================================================================
