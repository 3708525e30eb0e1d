------------------------------ MODULE MCKernel ------------------------------
(***************************************************************************)
(* Instances of Kernel for TLC.  The names are those of programs of the    *)
(* repository, the layouts are chosen here: some of them overlap.          *)
(***************************************************************************)
EXTENDS Kernel

\* menu and dmaprobe drive the engines, as in the Makefile's RAM disk; only one of
\* hello and dmaprobe can run at a time.
ProcessPrograms == {"sh", "hello", "menu", "dmaprobe"}
ProcessSlots ==
    [g \in ProcessPrograms |->
        CASE g = "sh" -> {"s1"} [] g = "hello" -> {"s2"} [] g = "menu" -> {"s3"} [] OTHER -> {"s2", "s4"}]

\* Only one of primes and life can run at a time.
FloatPrograms == {"sh", "hello", "primes", "life"}
FloatSlots ==
    [g \in FloatPrograms |->
        CASE g = "sh" -> {"s1"} [] g = "hello" -> {"s2"} [] g = "primes" -> {"s3"} [] OTHER -> {"s3", "s4"}]

\* "prog" is a file on the disk.
FilePrograms == {"sh", "write", "prog"}
FileSlots == [g \in FilePrograms |-> CASE g = "sh" -> {"s1"} [] g = "write" -> {"s2"} [] OTHER -> {"s3"}]

LivePrograms == {"sh", "hello", "primes"}
LiveSlots == [g \in LivePrograms |-> CASE g = "sh" -> {"s1"} [] g = "hello" -> {"s2"} [] OTHER -> {"s3"}]

=============================================================================
