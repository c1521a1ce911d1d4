------------------------------ MODULE MCMemory ------------------------------
(* An instance of Memory for TLC: two regions with a hole, the kernel at the *)
(* start of the first, boot data and symbols further up.                    *)
EXTENDS Memory

Region(b, n) == [base |-> b, n_pages |-> n]
Range_(f, l) == [first |-> f, last |-> l]
MCBootInputs == {
    [mmap |-> <<Region(0, 1), Region(2, 5), Region(8, 4)>>,
     reserved |-> <<Range_(2, 2), Range_(5, 5)>>],
    [mmap |-> <<Region(0, 6), Region(8, 4)>>,
     reserved |-> <<Range_(2, 3), Range_(8, 9)>>] }
=============================================================================
