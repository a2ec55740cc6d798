-------------------------- MODULE MCDirectDelivery --------------------------
(***************************************************************************)
(* Constant values for the runs of DirectDelivery.                         *)
(***************************************************************************)
EXTENDS DirectDelivery, TLC

CONSTANTS alice, bob, phone, laptop, tablet, m1, m2

\* One device each: alice writes on her phone, bob reads on his laptop.
OwnerPair == phone :> alice @@ laptop :> bob
\* bob reads on two devices.
OwnerTwo == phone :> alice @@ laptop :> bob @@ tablet :> bob

\* bob is away for the whole behaviour.
OwnerAlone == phone :> alice

FromPhone == [m \in Msg |-> phone]
ToBob == [m \in Msg |-> bob]
=============================================================================
