---------------------------- MODULE MCNodeServers ----------------------------
(* Four feature bits, one of which depends on another, and requests that     *)
(* change features, addresses or the colour, or fail.  One of them names a   *)
(* bit that is cut to another, which is set already.                         *)
EXTENDS NodeServers, TLC

CallerSymmetry == Permutations(Callers)

MCRequires == [b \in Bits |-> IF b = 2 THEN {1} ELSE {}]

MCInitAnn == [features |-> {1}, addrs |-> <<"a">>, color |-> "red", alias |-> "bob"]

Nothing == [features |-> << >>, addrs |-> << >>, color |-> {}, alias |-> {}]
Do(action, bit) == [action |-> action, bit |-> bit]
To(action, addr) == [action |-> action, addr |-> addr]

MCRequests ==
    {[Nothing EXCEPT !.features = <<Do("add", NumBits + 2)>>],
     [Nothing EXCEPT !.features = <<Do("add", 1 - NumBits)>>],
     [Nothing EXCEPT !.features = <<Do("remove", 1)>>, !.alias = {"eve"}],
     [Nothing EXCEPT !.addrs = <<To("add", "b"), To("add", "a"), To("add", "b")>>],
     [Nothing EXCEPT !.addrs = <<To("remove", "a"), To("add", "c")>>],
     [Nothing EXCEPT !.color = {"blue"}],
     [Nothing EXCEPT !.color = {"red"}]}
=============================================================================
