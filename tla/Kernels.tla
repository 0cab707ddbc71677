------------------------------- MODULE Kernels -------------------------------
(***************************************************************************)
(* The distance kernels: which one a machine gets, and which components    *)
(* its unrolled loops read.  A kernel is a list of loops that continue one *)
(* another; a turn of a loop reads, for each of its accumulators, a number *)
(* of lanes from an offset.  The sums themselves are floating point and    *)
(* stay out; l2_squared, dot and norm_squared read alike.                  *)
(***************************************************************************)
EXTENDS Integers, Sequences, FiniteSets

CONSTANT MaxCount   \* the largest vector the property looks at

Loop(step, offsets, lanes) == [step |-> step, offsets |-> offsets, lanes |-> lanes]

OneByOne == Loop(1, {0}, 1)

Scalar == <<Loop(4, {0, 1, 2, 3}, 1), OneByOne>>

Neon == <<Loop(16, {0, 4, 8, 12}, 4), Loop(4, {0}, 4), OneByOne>>

Avx2 == <<Loop(32, {0, 8, 16, 24}, 8), Loop(8, {0}, 8), OneByOne>>

\* A loop runs while a whole step is left.
Turns(count, from, loop) == (count - from) \div loop.step

\* Where the n-th loop of a kernel begins.
From(kernel, count) ==
    LET from[n \in 1 .. Len(kernel)] ==
            IF n = 1 THEN 0
            ELSE from[n - 1] + kernel[n - 1].step * Turns(count, from[n - 1], kernel[n - 1])
    IN  from

\* The loads of a call: each starts somewhere and takes the lanes of its loop.
Loads(kernel, count) ==
    LET from == From(kernel, count)
    IN  UNION {{[at    |-> from[n] + turn * kernel[n].step + offset,
                 lanes |-> kernel[n].lanes] :
                    turn   \in 0 .. Turns(count, from[n], kernel[n]) - 1,
                    offset \in kernel[n].offsets} : n \in DOMAIN kernel}

(***************************************************************************)
(* The machine: what the build was for, and what cpuid and xgetbv report   *)
(***************************************************************************)
Machines ==
    [arch : {"arm64", "x86_64", "other"}, simd : BOOLEAN,
     leaves : {1, 7}, osXsave : BOOLEAN, avx : BOOLEAN, fma : BOOLEAN, avx2 : BOOLEAN,
     xcr0 : 0 .. 7]

\* xgetbv is executed only behind the bits of leaf 1.
ReadsXcr0(m) == m.leaves >= 7 /\ m.osXsave /\ m.avx /\ m.fma

\* Bits 1 and 2 of XCR0: the system saves the registers.
DetectAvx2(m) == ReadsXcr0(m) /\ (m.xcr0 \div 2) % 4 = 3 /\ m.avx2

\* The list ends with the best kernel.
DetectKernels(m) ==
    <<Scalar>> \o
    (IF m.simd /\ m.arch = "arm64" THEN <<Neon>> ELSE <<>>) \o
    (IF m.simd /\ m.arch = "x86_64" /\ DetectAvx2(m) THEN <<Avx2>> ELSE <<>>)

ActiveKernel(m) == LET kernels == DetectKernels(m) IN kernels[Len(kernels)]
-----------------------------------------------------------------------------
\* On every machine and for every dimension the active kernel reads each
\* component once and none past the end, "it must be right for D = 5"; an
\* 8-lane kernel runs only where the system saves its registers, and xgetbv
\* only where it exists.
ActiveKernelIsSound ==
    /\ \A m \in Machines :
           /\ ReadsXcr0(m) => m.osXsave
           /\ \A n \in DOMAIN ActiveKernel(m) :
                  ActiveKernel(m)[n].lanes = 8 =>
                      m.arch = "x86_64" /\ m.avx2 /\ m.fma /\ m.xcr0 \in {6, 7}
    /\ \A kernel \in {ActiveKernel(m) : m \in Machines}, count \in 0 .. MaxCount :
           LET loads == Loads(kernel, count)
           IN  /\ \A i \in 0 .. count - 1 :
                      Cardinality({l \in loads : i \in l.at .. l.at + l.lanes - 1}) = 1
               /\ \A l \in loads : l.at + l.lanes <= count
=============================================================================
