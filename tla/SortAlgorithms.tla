---------------------------- MODULE SortAlgorithms ----------------------------
(***************************************************************************)
(* The sorts and the binary search of the Algorithm application, one       *)
(* operator for each function.  Positions count from 1, and a function     *)
(* that changes its array returns the changed one.                         *)
(***************************************************************************)
EXTENDS Integers, Sequences, FiniteSetsExt

Swap(a, i, j) == [a EXCEPT ![i] = a[j], ![j] = a[i]]

\* for k in first...last: the value that starts as base and that Op changes in every round.
For(Op(_, _), base, first, last) ==
  LET round[k \in (first - 1)..last] == IF k < first THEN base ELSE Op(round[k - 1], k)
  IN IF last < first THEN base ELSE round[last]

\* The positions of an array and the arrays of its length.
Positions(array) == 1..Len(array)
Arrays(array) == [Positions(array) -> Int]
-----------------------------------------------------------------------------
(***************************************************************************)
(* BubbleSortController.                                                   *)
(***************************************************************************)
bubblePass(a, i) ==
  For(LAMBDA b, j : IF b[j] > b[j + 1] THEN Swap(b, j, j + 1) ELSE b, a, 1, Len(a) - i)

bubbleSort(array) == For(bubblePass, array, 1, Len(array))

\* A pass without an exchange is the last one: every exchange changes the array.
bubbleOptimizerSort(array) ==
  LET pass[p \in Arrays(array) \X (1..(Len(array) + 1))] ==
        LET a == p[1]
            i == p[2]
        IN IF i > Len(a) \/ bubblePass(a, i) = a THEN a ELSE pass[<<bubblePass(a, i), i + 1>>]
  IN pass[<<array, 1>>]

(***************************************************************************)
(* SelectSortController.  The two functions are the same: what the search  *)
(* for the least element passes over moves up.                             *)
(***************************************************************************)
least(s, j) ==
  IF s.min > s.a[j] THEN [a |-> [s.a EXCEPT ![j] = s.min], min |-> s.a[j]] ELSE s

select(a, i) ==
  LET s == For(least, [a |-> a, min |-> a[i]], i + 1, Len(a)) IN [s.a EXCEPT ![i] = s.min]

selectSort(array) == For(select, array, 1, Len(array))

(***************************************************************************)
(* InsertSortController.                                                   *)
(***************************************************************************)
insert(array, i) ==
  LET sink[p \in Arrays(array) \X Positions(array)] ==
        LET a == p[1]
            j == p[2]
        IN IF j > 1 /\ a[j] < a[j - 1] THEN sink[<<Swap(a, j, j - 1), j - 1>>] ELSE a
  IN sink[<<array, i>>]

insertSort(array) == For(insert, array, 2, Len(array))

(***************************************************************************)
(* ShellSortController: the elements gap apart are sorted by insertion.    *)
(***************************************************************************)
shellInsert(array, j, gap) ==
  LET temp == array[j]
      shift[p \in Arrays(array) \X ((1 - gap)..(Len(array) - gap))] ==
        LET a == p[1]
            k == p[2]
        IN IF k >= 1 /\ a[k] > temp THEN shift[<<[a EXCEPT ![k + gap] = a[k]], k - gap>>]
                                    ELSE [a EXCEPT ![k + gap] = temp]
  IN IF array[j] < array[j - gap] THEN shift[<<array, j - gap>>] ELSE array

shellColumn(array, i, gap) ==
  For(LAMBDA a, k : shellInsert(a, i + k * gap, gap), array, 1, (Len(array) - i) \div gap)

shellRound(array, gap) == For(LAMBDA a, i : shellColumn(a, i, gap), array, 1, gap)

shellSort(array) ==
  LET round[p \in Arrays(array) \X (0..Len(array))] ==
        LET a == p[1]
            gap == p[2]
        IN IF gap = 0 THEN a ELSE round[<<shellRound(a, gap), gap \div 2>>]
  IN round[<<array, Len(array) \div 2>>]
-----------------------------------------------------------------------------
(***************************************************************************)
(* MergeSortController.                                                    *)
(***************************************************************************)
merge(first, second) ==
  LET m[p \in Seq(Int) \X Seq(Int)] ==
        LET f == p[1]
            s == p[2]
        IN IF f = <<>> THEN s
           ELSE IF s = <<>> THEN f
           ELSE IF Head(f) < Head(s) THEN <<Head(f)>> \o m[<<Tail(f), s>>]
                                     ELSE <<Head(s)>> \o m[<<f, Tail(s)>>]
  IN m[<<first, second>>]

\* A round merges neighbours, and an array without a neighbour stays.
mergeRound(temp) ==
  [k \in 1..((Len(temp) + 1) \div 2) |->
     IF 2 * k <= Len(temp) THEN merge(temp[2 * k - 1], temp[2 * k]) ELSE temp[2 * k - 1]]

\* The loop ends when one array is left, so that it does not end for an empty array.
mergeSort(array) ==
  LET round[temp \in Seq(Seq(Int)) \ {<<>>}] ==
        IF Len(temp) = 1 THEN temp[1] ELSE round[mergeRound(temp)]
  IN round[[k \in Positions(array) |-> <<array[k]>>]]

(***************************************************************************)
(* QuickSortController.  The two cursors of the partition run towards each *)
(* other, the right one first, and the pivot goes where they meet.         *)
(***************************************************************************)
goLeft(a, pivot, left, right) == Max({k \in left..right : k = left \/ a[k] < pivot})
goRight(a, pivot, left, right) == Min({k \in left..right : k = right \/ a[k] > pivot})

\* Plausible mistake: the cursor at the pivot goes first.
meet_LeftFirst(a, pivot, left, right) ==
  LET l == goRight(a, pivot, left, right) IN <<l, goLeft(a, pivot, l, right)>>

meet(a, pivot, left, right) ==
  LET r == goLeft(a, pivot, left, right) IN <<goRight(a, pivot, left, r), r>>

partition(array, start, end) ==
  LET Cursors == {c \in Positions(array) \X Positions(array) : c[1] <= c[2]}
      loop[p \in Arrays(array) \X Cursors] ==
        LET a == p[1]
            left == p[2][1]
            m == meet(a, array[start], left, p[2][2])
        IN IF left = p[2][2] THEN [array |-> Swap(a, left, start), index |-> left]
                             ELSE loop[<<Swap(a, m[1], m[2]), m>>]
  IN loop[<<array, <<start, end>>>>]

quickSort(array) ==
  LET q[p \in Arrays(array) \X (1..(Len(array) + 1)) \X (0..Len(array))] ==
        LET start == p[2]
            end == p[3]
            c == partition(p[1], start, end)
        IN IF start >= end THEN p[1]
           ELSE q[<<q[<<c.array, start, c.index - 1>>], c.index + 1, end>>]
  IN q[<<array, 1, Len(array)>>]
-----------------------------------------------------------------------------
(***************************************************************************)
(* BinarySearchController, and the search of TwoSumController2 between two *)
(* positions.  The position of the target, or -1.                          *)
(***************************************************************************)
binarySearchBetween(nums, left, right, target) ==
  LET search[p \in (1..(Len(nums) + 1)) \X (0..Len(nums))] ==
        LET low == p[1]
            high == p[2]
            mid == low + (high - low) \div 2
        IN IF low > high THEN -1
           ELSE IF nums[mid] > target THEN search[<<low, mid - 1>>]
           ELSE IF nums[mid] < target THEN search[<<mid + 1, high>>]
           ELSE mid
  IN search[<<left, right>>]

binarySearch(nums, target) == binarySearchBetween(nums, 1, Len(nums), target)

\* The interval is open on the right.
binarySearch1(nums, target) ==
  LET search[p \in (1..(Len(nums) + 1)) \X (1..(Len(nums) + 1))] ==
        LET left == p[1]
            right == p[2]
            middle == left + (right - left) \div 2
        IN IF left >= right THEN -1
           ELSE IF target < nums[middle] THEN search[<<left, middle>>]
           ELSE IF target > nums[middle] THEN search[<<middle + 1, right>>]
           ELSE middle
  IN search[<<1, Len(nums) + 1>>]
=============================================================================
