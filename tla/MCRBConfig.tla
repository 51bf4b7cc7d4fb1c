----------------------------- MODULE MCRBConfig -----------------------------
(* Instances of RBConfig for TLC: a 64 bit build and its unsigned short.   *)
EXTENDS RBConfig

\* Sizes around those of a pointer and of the structures of the tests.
SmallExtras == 0..20 \cup {28, 32, 36, 40}
SmallSizes  == 1..20 \cup {28, 32, 36, 40}

\* Requests around the default and on both sides of the width of the bucket.
EdgeCapacities ==
    {0, 1, 3, 4, 5, 31, 32, 33, 512} \cup
    {USHRT_MAX - 1, USHRT_MAX, USHRT_MAX + 1, USHRT_MAX + 33, 2 * USHRT_MAX + 3}
=============================================================================
