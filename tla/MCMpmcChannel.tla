---------------------------- MODULE MCMpmcChannel ----------------------------
(* Instances of MpmcChannel for TLC: small channels and their uses. *)
EXTENDS MpmcChannel, TLC

CONSTANTS s1, s2

First == s1 :> 0

Sends(n1, n2) == (s1 :> n1) @@ (s2 :> n2)

\* A receiver that is cloned and dropped, while a sender fills its ring.
Cloning == [cap |-> 2, senders |-> First, receivers |-> 1, later |-> Receivers,
            calls |-> {"try"}, sends |-> Sends(2, 0)]

\* A sole receiver that blocks, and a second sender that outruns its ring.
Registering == [cap |-> 1, senders |-> First, receivers |-> 1, later |-> {s2},
                calls |-> {"recv"}, sends |-> Sends(0, 2)]

\* Two receivers that block on one sender.
Blocking == [cap |-> 1, senders |-> First, receivers |-> 2, later |-> {},
             calls |-> {"recv"}, sends |-> Sends(1, 0)]

AllSetups == {Cloning, Registering, Blocking}
OnlyBlocking == {Blocking}

ReceiverSymmetry == Permutations(Receivers)
=============================================================================
