------------------------------- MODULE MCFlush -------------------------------
(***************************************************************************)
(* Flush for TLC: two subnets of two addresses, an address of another      *)
(* device, and a table that fills the buffer during the dump.  A datagram  *)
(* and the buffer hold two entries each.                                   *)
(***************************************************************************)
EXTENDS Flush

P(id) == Entry(id, FALSE)
S(id) == Entry(id, TRUE)

Many == <<P("a2"), P("b1"), P("c"), P("d"), P("e"), P("f"), P("g"), P("h")>>

MCSubnet ==
  [a1 |-> 1, a2 |-> 1, b1 |-> 2, b2 |-> 2, c |-> 3, d |-> 4, e |-> 5, f |-> 6, g |-> 7, h |-> 8]

MCTables ==
  {<<P("a1"), S("a2")>>, <<P("c"), P("a1"), S("a2")>>,
   <<P("a1"), P("b1"), S("a2"), S("b2")>>, <<P("b1")>>, <<P("a1"), P("b1"), P("c")>>, Many}

=============================================================================
