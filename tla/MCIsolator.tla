---------------------------- MODULE MCIsolator ----------------------------
(***************************************************************************)
(* Transactions for Isolator: contracts that finish, throw, return too     *)
(* much, loop with and without gas, write, call each other, themselves, a  *)
(* contract in Go and one that does not exist; publishers with gas and     *)
(* with little, which pledge for more.                                     *)
(***************************************************************************)
EXTENDS Isolator

CodeTable == [
  pay   |-> <<Incr(1), Put("a", 1), Return("value")>>,
  outer |-> <<Put("a", 1), Call("pay2"), Read(1), Return("")>>,
  pay2  |-> <<Put("b", 1), Receipt(1), Return("value")>>,
  spin  |-> <<Put("b", 0), Loop(1)>>,
  hang  |-> <<Loop(0)>>,
  wait  |-> <<Put("a", 1), Call("hang"), Return("")>>,
  burn  |-> <<Incr(1), Call("spin"), Return("")>>,
  bad   |-> <<Put("a", 1), Throw(1)>>,
  long  |-> <<Incr(1), Return("bad")>>,
  over  |-> <<Put("a", 1), Return("value")>>,
  self  |-> <<Call("self"), Return("")>>,
  deep  |-> <<Call("outer"), Return("")>>,
  native |-> <<Call("go"), Put("c", 1), Return("")>>,
  denied |-> <<Put("a", 1), Call("deny"), Return("")>>,
  lost  |-> <<Call("none"), Return("")>>,
  poor  |-> <<Put("a", 1), Put("b", 1), Put("c", 1), Return("")>>]
MCCode == CodeTable

NativeTable == [
  go       |-> [keys |-> {"a"}, cpu |-> 1, net |-> 1, fails |-> FALSE],
  deny     |-> [keys |-> {}, cpu |-> 1, net |-> 0, fails |-> TRUE],
  unpledge |-> [keys |-> {"g"}, cpu |-> 1, net |-> 0, fails |-> FALSE],
  pledge   |-> [keys |-> {"p"}, cpu |-> 1, net |-> 1, fails |-> FALSE],
  pledgeTooMuch |-> [keys |-> {"p"}, cpu |-> 1, net |-> 1, fails |-> FALSE]]
MCNative == NativeTable

Tx(actions, gasLimit) == [actions |-> actions, GasLimit |-> gasLimit, GasRatio |-> 2,
                          size |-> 1, auth |-> 1, signed |-> TRUE, gas |-> 40]
Poor(t) == [t EXCEPT !.gas = 4]
TxTable == {
  Tx(<<"pay", "pay2">>, 28), Tx(<<"pay", "pay2">>, 19), Tx(<<"outer">>, 27),
  Tx(<<"outer">>, 12), Tx(<<"pay", "spin">>, 24), Tx(<<"burn">>, 18),
  Tx(<<"go", "wait">>, 28), Tx(<<"pay", "hang">>, 28), Tx(<<"bad">>, 20),
  Tx(<<"pay", "long">>, 28), Tx(<<"over">>, 20), Tx(<<"self">>, 28),
  Tx(<<"deep">>, 28), Tx(<<"native">>, 28), Tx(<<"native">>, 6), Tx(<<"lost">>, 28),
  Tx(<<"pay", "none">>, 28), Tx(<<"poor">>, 28), Tx(<<"go", "unpledge">>, 28),
  Tx(<<"go", "spin">>, 14), Tx(<<"denied">>, 20), Tx(<<"go", "deny">>, 20), Tx(<<>>, 20),
  Poor(Tx(<<"pledge">>, 20)), Poor(Tx(<<"pledge">>, 28)), Poor(Tx(<<"pledgeTooMuch">>, 20)),
  Poor(Tx(<<"pledge">>, 6)), Poor(Tx(<<"pay">>, 20)),
  [Tx(<<"pay">>, 20) EXCEPT !.signed = FALSE]}
  \cup {Tx(<<"pay">>, g) : g \in 2..6}
  \cup {[Tx(<<"pay">>, g) EXCEPT !.auth = 3] : g \in {8, 9, 10}}
MCTxs == TxTable
=============================================================================
