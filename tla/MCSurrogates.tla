---------------------------- MODULE MCSurrogates ----------------------------
(***************************************************************************)
(* Instances of Surrogates for TLC.  Inputs that differ by one round to    *)
(* the same key.                                                           *)
(***************************************************************************)
EXTENDS Surrogates, TLC

CONSTANTS ka, kb, kc, ca, cb,   \* keys and coarse keys
          l1, l2, p1,           \* buckets of both tables
          w1, w2

\* ka and kb are neighbours, kc is not.  The hook dht_fill keeps 21 out of the
\* table, and the ID of 31 is not 2.
MCInput == {10, 11, 20, 21, 30, 31}
MCKeyOf == (10 :> ka) @@ (11 :> ka) @@ (20 :> kb) @@ (21 :> kb)
             @@ (30 :> kc) @@ (31 :> kc)
MCCoarse == (ka :> ca) @@ (kb :> ca) @@ (kc :> cb)
MCPqc == (10 :> 15) @@ (11 :> 17) @@ (20 :> 29) @@ (21 :> 28)
           @@ (30 :> 42) @@ (31 :> 46)

\* All keys compete for the same two buckets, from either side.
MCProbe == (ka :> <<l1, l2>>) @@ (kb :> <<l2, l1>>) @@ (kc :> <<l1, l2>>)
MCPHTProbe == (ca :> <<p1>>) @@ (cb :> <<p1>>)

\* The hook interp_pre does not let 30 contribute to 10.
OneDrop == {<<10, 30>>}

Mixed == {<<10, 21>>, <<31, 20>>, <<11, 30>>}

Workers == Permutations(Worker)
=============================================================================
