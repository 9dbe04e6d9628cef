------------------------------ MODULE SumProblems ------------------------------
(***************************************************************************)
(* The sum problems of the Algorithm application.  Positions count from 1, *)
(* and "no answer" is the empty sequence.                                  *)
(***************************************************************************)
EXTENDS SortAlgorithms

\* The numbers in order: at k the one which k - 1 others precede.
Precedes(nums, j, i) == nums[j] < nums[i] \/ (nums[j] = nums[i] /\ j < i)
place(nums, i) == Cardinality({j \in Positions(nums) : Precedes(nums, j, i)}) + 1
sorted(nums) ==
  [k \in Positions(nums) |-> nums[CHOOSE i \in Positions(nums) : place(nums, i) = k]]
-----------------------------------------------------------------------------
(***************************************************************************)
(* TwoSumController1, and the brute force of TwoSumController2: the first  *)
(* pair in the order of the loops, by a dictionary of the last position of *)
(* every number, and by a dictionary of the numbers passed.                *)
(***************************************************************************)
twoSum(nums, target) ==
  LET Partners(i) == {j \in (i + 1)..Len(nums) : nums[i] + nums[j] = target}
      firsts == {i \in Positions(nums) : Partners(i) # {}}
  IN IF firsts = {} THEN <<>> ELSE <<Min(firsts), Min(Partners(Min(firsts)))>>

twoSum1(nums, target) ==
  LET At(v) == {j \in Positions(nums) : nums[j] = v}
      firsts == {i \in Positions(nums) : /\ At(target - nums[i]) # {}
                                         /\ Max(At(target - nums[i])) # i}
  IN IF firsts = {} THEN <<>> ELSE <<Min(firsts), Max(At(target - nums[Min(firsts)]))>>

twoSum2(nums, target) ==
  LET Passed(i) == {j \in 1..(i - 1) : nums[j] = target - nums[i]}
      firsts == {i \in Positions(nums) : Passed(i) # {}}
  IN IF firsts = {} THEN <<>> ELSE <<Min(firsts), Max(Passed(Min(firsts)))>>

(***************************************************************************)
(* TwoSumController2: a search to the right of each number, and two        *)
(* pointers, both on a sorted array.  (The last answers -1, -1 for none.)  *)
(***************************************************************************)
twoSumSearch(numbers, target) ==
  LET Found(i) == binarySearchBetween(numbers, i + 1, Len(numbers), target - numbers[i])
      firsts == {i \in Positions(numbers) : Found(i) # -1}
  IN IF firsts = {} THEN <<>> ELSE <<Min(firsts), Found(Min(firsts))>>

twoSumPointers(numbers, target) ==
  LET close[p \in (1..(Len(numbers) + 1)) \X (0..Len(numbers))] ==
        LET left == p[1]
            right == p[2]
            sum == numbers[left] + numbers[right]
        IN IF left >= right THEN <<>>
           ELSE IF sum = target THEN <<left, right>>
           ELSE IF sum < target THEN close[<<left + 1, right>>]
           ELSE close[<<left, right - 1>>]
  IN close[<<1, Len(numbers)>>]
-----------------------------------------------------------------------------
(***************************************************************************)
(* The two pointers shared by ThreeSumController and FourSumController:    *)
(* the pairs between left and right which complete partSum to target, in a *)
(* sorted array; after a pair the pointers pass numbers equal to it.       *)
(***************************************************************************)
passLeft(nums, left, right) == Min({k \in left..right : k = right \/ nums[k] # nums[k + 1]})
passRight(nums, left, right) == Max({k \in left..right : k = left \/ nums[k] # nums[k - 1]})

\* Plausible mistake: the pointers stay at the pair, and find it again.
passEqual_None(nums, left, right) == <<left, right>>

passEqual(nums, left, right) ==
  LET l == passLeft(nums, left, right) IN <<l, passRight(nums, l, right)>>

pairs(nums, partSum, target, first, last) ==
  LET close[p \in (1..(Len(nums) + 1)) \X (0..Len(nums))] ==
        LET left == p[1]
            right == p[2]
            sum == partSum + nums[left] + nums[right]
            passed == passEqual(nums, left, right)
        IN IF left >= right THEN <<>>
           ELSE IF sum = target
             THEN <<(<<nums[left], nums[right]>>)>> \o close[<<passed[1] + 1, passed[2] - 1>>]
           ELSE IF sum < target THEN close[<<left + 1, right>>]
           ELSE close[<<left, right - 1>>]
  IN close[<<first, last>>]

\* The numbers before a pair, put in front of each of the pairs.
Prefixed(prefix, s) == [k \in DOMAIN s |-> prefix \o s[k]]

\* ThreeSumController: brute force, a set of the triples found.
threeSum(nums) ==
  {sorted(<<nums[t[1]], nums[t[2]], nums[t[3]]>>) :
     t \in {t \in Positions(nums) \X Positions(nums) \X Positions(nums) :
              t[1] < t[2] /\ t[2] < t[3] /\ nums[t[1]] + nums[t[2]] + nums[t[3]] = 0}}

\* Two pointers that go on by one after a triple; a set drops those found twice.
threeSum1(unsorted) ==
  LET nums == sorted(unsorted)
      close[p \in Positions(nums) \X (1..(Len(nums) + 1)) \X (0..Len(nums))] ==
        LET i == p[1]
            left == p[2]
            right == p[3]
            temp == nums[i] + nums[left] + nums[right]
        IN IF left >= right THEN {}
           ELSE IF temp = 0
             THEN {<<nums[i], nums[left], nums[right]>>} \union close[<<i, left + 1, right - 1>>]
           ELSE IF temp < 0 THEN close[<<i, left + 1, right>>]
           ELSE close[<<i, left, right - 1>>]
  IN UNION {close[<<i, i + 1, Len(nums)>>] : i \in Positions(nums)}

\* Two pointers that pass equal numbers: no triple is found twice.
threeSum2(unsorted) ==
  LET nums == sorted(unsorted)
      Add(found, i) == IF i > 1 /\ nums[i] = nums[i - 1] THEN found
                       ELSE found \o Prefixed(<<nums[i]>>, pairs(nums, nums[i], 0, i + 1, Len(nums)))
  IN For(Add, <<>>, 1, Len(nums))

\* FourSumController.  The code subtracts the second number where it should add it.
fourSum(unsorted, target) ==
  LET nums == sorted(unsorted)
      Second(i, found, j) ==
        IF j > i + 1 /\ nums[j] = nums[j - 1] THEN found
        ELSE found \o Prefixed(<<nums[i], nums[j]>>,
                               pairs(nums, nums[i] - nums[j], target, j + 1, Len(nums)))
      First(found, i) ==
        IF i > 1 /\ nums[i] = nums[i - 1] THEN found
        ELSE For(LAMBDA f, j : Second(i, f, j), found, i + 1, Len(nums) - 2)
  IN IF Len(nums) < 4 THEN <<>> ELSE For(First, <<>>, 1, Len(nums) - 3)
-----------------------------------------------------------------------------
(***************************************************************************)
(* MaxSubArrayController, for an array with at least one number: all       *)
(* subarrays, the greedy pass, and the pass that adds to each number the   *)
(* sum which ends before it, if that is positive.                          *)
(***************************************************************************)
SumOf(nums, i, j) == For(LAMBDA cur, k : cur + nums[k], 0, i, j)

maxSubArray(nums) ==
  Max({SumOf(nums, p[1], p[2]) : p \in {p \in Positions(nums) \X Positions(nums) : p[1] <= p[2]}})

\* Plausible mistake: the sum is dropped before it is looked at.
greedy_DropFirst(s, num) ==
  LET cur == IF s.cur + num < 0 THEN 0 ELSE s.cur + num
  IN [cur |-> cur, max |-> s.max \union {cur}]

\* max: the sums seen, of which the code keeps the greatest.
greedy(s, num) ==
  LET cur == s.cur + num
  IN [cur |-> IF cur < 0 THEN 0 ELSE cur, max |-> s.max \union {cur}]

maxSubArray1(nums) ==
  Max(For(LAMBDA s, i : greedy(s, nums[i]), [cur |-> 0, max |-> {}], 1, Len(nums)).max)

maxSubArray2(nums) ==
  LET sums == For(LAMBDA n, i : IF n[i - 1] > 0 THEN [n EXCEPT ![i] = n[i] + n[i - 1]] ELSE n,
                  nums, 2, Len(nums))
  IN Max({sums[i] : i \in Positions(nums)})
=============================================================================
