------------------------------ MODULE MCBuild ------------------------------
(* Instances of Build for TLC. *)
EXTENDS Build, TLC

CONSTANTS b1, b2, u1, u2, n1, n2, main1, main2

Asks(u, bs, auto) == [url |-> u, branches |-> bs, auto |-> auto]

\* The Merge of b1 for u2 has the name of that of b2 for u1.
Clashing == (b1 :> (u1 :> n1 @@ u2 :> n2)) @@ (b2 :> (u1 :> n2 @@ u2 :> n1))

One == <<Asks(u1, <<main1>>, FALSE)>>

Both == <<Asks(u2, <<main1>>, FALSE), Asks(u1, <<main1, main2>>, FALSE)>>

\* b1 adds and removes a repository and changes the branches of another; b2
\* does not, but is created twice.
Changing == (b1 :> {One, Both}) @@ (b2 :> {One})

Lives == (b1 :> 1) @@ (b2 :> 2)

\* A second branch joins the release, and the consent is withdrawn.
Withdrawing == (b1 :> {<<Asks(u1, <<main1>>, TRUE)>>, <<Asks(u1, <<main1, main2>>, FALSE)>>})

Apart == (b1 :> (u1 :> n1 @@ u2 :> n2))

Life == (b1 :> 1)

=============================================================================
