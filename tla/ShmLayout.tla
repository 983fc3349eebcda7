----------------------------- MODULE ShmLayout ----------------------------
(* Where the programs put their region, so that several benchmarks can run  *)
(* at a time.  In a device, main() of each program counts -i + 1 regions of *)
(* its own size back from the end of the mapping, and asks nothing about    *)
(* the others, nor whether the mapping is that long.  Without -M the socket *)
(* programs name a segment of their own by the key that ftok() makes of -i  *)
(* and a file "shmem", and do not ask whether it could make one.            *)
(*                                                                          *)
(* The two processes of a benchmark are one here: they are given the same   *)
(* -i and -b, and what matters is which bytes they write.  The names of the *)
(* specification differ from those of Benchmarks, so that one module can    *)
(* extend both.                                                             *)
EXTENDS Integers

CONSTANTS
    Benches,      \* the benchmarks
    Memory,       \* the size of the device in bytes, ivshmem_size
    Sizes,        \* the values -b may be given
    Indices,      \* the values -i may be given
    IntMax,       \* INT_MAX
    Ids           \* how many values of its second argument ftok() tells apart

ASSUME MemoryAssumption == Memory \in Nat
ASSUME SizesAssumption == Sizes \subseteq Nat \ {0}
ASSUME IndicesAssumption == Indices \subseteq Int
ASSUME WidthAssumption == IntMax \in Nat /\ Ids \in Nat \ {0}

VARIABLES
    kind,       \* "guarded" for ivshmem-shm and ivshmem-uio, with their guard word,
                \* "plain" for other regions in a device, or "segment"
    size,       \* -b
    index,      \* -i
    isFile,     \* there is a file "shmem" in the working directory
    start,      \* where passed_memory points, from the start of the mapping
    state,      \* what each benchmark is doing
    intruders   \* history: who wrote into its region since it last filled it

layout == <<kind, size, index, isFile, start, state, intruders>>
Options == <<kind, size, index, isFile>>

(* No -i means index 0, and so does -i -1.                                  *)
shmem_index(b) == IF index[b] = -1 THEN 0 ELSE index[b]

(* The guard word is a uint32_t.                                            *)
Span(b) == size[b] + (IF kind[b] = "guarded" THEN 4 ELSE 0)

(* Mutation: the region is said to begin where it should end.               *)
ProductOfEnd(b) == shmem_index(b) * Span(b)

(* The distance of a region from the end of the device.  With sizeof in the *)
(* product it is a size_t, large enough; without, it is an int, and what    *)
(* does not fit one is the value as it is or the value wrapped.             *)
Product(b) == (shmem_index(b) + 1) * Span(b)
IsInt(x) == -IntMax - 1 <= x /\ x <= IntMax
Wrapped(x) == ((x + IntMax + 1) % (2 * (IntMax + 1))) - (IntMax + 1)
Distances(b) == IF kind[b] = "guarded" \/ IsInt(Product(b)) THEN {Product(b)}
                ELSE {Product(b), Wrapped(Product(b))}

(* ftok() looks at some bits of the index only, and returns -1 without a    *)
(* file.                                                                    *)
Key(b) == IF isFile THEN shmem_index(b) % Ids ELSE -1

(* The memory a benchmark uses: the device, or the segment of its key.      *)
Home(b) == IF kind[b] = "segment" THEN <<Key(b)>> ELSE <<>>
Length(b) == IF kind[b] = "segment" THEN size[b] ELSE Memory

Region(b) == start[b] .. start[b] + Span(b) - 1
Inside(b) == 0 <= start[b] /\ start[b] + Span(b) <= Length(b)
Overlap(b, c) == Home(b) = Home(c) /\ Region(b) \cap Region(c) # {}

LayoutInit ==
    /\ kind \in [Benches -> {"guarded", "plain", "segment"}]
    /\ size \in [Benches -> Sizes]
    /\ index \in [Benches -> Indices]
    /\ isFile \in BOOLEAN
    /\ start = [b \in Benches |-> 0]
    /\ state = [b \in Benches |-> "off"]
    /\ intruders = [b \in Benches |-> {}]

Launch(b) ==
    /\ state[b] = "off"
    /\ state' = [state EXCEPT ![b] = "mapped"]
    /\ \E d \in Distances(b) :
         start' = [start EXCEPT ![b] = IF kind[b] = "segment" THEN 0 ELSE Memory - d]
    /\ UNCHANGED intruders /\ UNCHANGED Options

(* memset() of the region, the server's in main() or one of the loops'.     *)
(* What lies outside the mapping ends the process, after it has written the *)
(* rest or before.                                                          *)
Fill(b) ==
    /\ state[b] \in {"mapped", "filled"}
    /\ state' = [state EXCEPT ![b] = IF Inside(b) THEN "filled" ELSE "outside"]
    /\ \E written \in IF Inside(b) THEN {TRUE} ELSE BOOLEAN :
         intruders' = [c \in Benches |-> IF c = b THEN {}
                                         ELSE IF written /\ Overlap(b, c) THEN intruders[c] \cup {b}
                                         ELSE intruders[c]]
    /\ UNCHANGED start /\ UNCHANGED Options

Stop(b) ==
    /\ state[b] \in {"mapped", "filled", "outside"}
    /\ state' = [state EXCEPT ![b] = "off"]
    /\ UNCHANGED <<start, intruders>> /\ UNCHANGED Options

LayoutNext == \E b \in Benches : Launch(b) \/ Fill(b) \/ Stop(b)

LayoutSpec == LayoutInit /\ [][LayoutNext]_layout
---------------------------------------------------------------------------
LayoutTypeOK ==
    /\ kind \in [Benches -> {"guarded", "plain", "segment"}]
    /\ size \in [Benches -> Sizes]
    /\ index \in [Benches -> Indices]
    /\ isFile \in BOOLEAN
    /\ start \in [Benches -> Int]
    /\ state \in [Benches -> {"off", "mapped", "filled", "outside"}]
    /\ intruders \in [Benches -> SUBSET Benches]

(* Which benchmarks can be told to run at a time: on one device, if none    *)
(* with a larger index has a smaller region, guard word included, and no    *)
(* product overflows; without a device, if there is a file to name the      *)
(* segments by and their keys differ.                                       *)
Fits(b) == shmem_index(b) >= 0 /\ (kind[b] = "guarded" \/ IsInt(Product(b)))
Below(b, c) == shmem_index(b) < shmem_index(c) /\ Span(b) <= Span(c)
Compatible(b, c) ==
    IF kind[b] = "segment" /\ kind[c] = "segment"
    THEN isFile /\ shmem_index(b) % Ids # shmem_index(c) % Ids
    ELSE \/ kind[b] = "segment" \/ kind[c] = "segment"
         \/ Fits(b) /\ Fits(c) /\ (Below(b, c) \/ Below(c, b))

(* Such benchmarks never write into each other's regions, in whatever order *)
(* they start, fill and stop, and one whose regions up to its own fit into  *)
(* the device never leaves it.                                              *)
Intact ==
    \A b \in Benches :
        /\ state[b] = "filled" => \A c \in Benches \ {b} : Compatible(b, c) => c \notin intruders[b]
        /\ state[b] = "outside" /\ Fits(b) => Product(b) > Memory
===========================================================================
