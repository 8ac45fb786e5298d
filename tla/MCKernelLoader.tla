--------------------------- MODULE MCKernelLoader ---------------------------
EXTENDS KernelLoader
CONSTANTS kernel, backup, readme
MCFiles == {kernel, backup, readme}
MCSize  == [f \in MCFiles |-> CASE f = kernel -> 3 [] f = backup -> 2 [] f = readme -> 0]
MCName  == [f \in MCFiles |-> CASE f = kernel -> 0..3 [] f = backup -> {0, 1, 3}
                                [] f = readme -> {}]
=============================================================================
