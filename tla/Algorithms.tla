------------------------------ MODULE Algorithms ------------------------------
(***************************************************************************)
(* The Algorithm application: a touch runs the functions of a controller   *)
(* on an array.                                                            *)
(***************************************************************************)
EXTENDS SumProblems

CONSTANTS MaxLength,  \* bound on the length of the array
          Greatest    \* the numbers are those between 1 - Greatest and Greatest

AlgorithmsAssumption == MaxLength \in Nat /\ Greatest \in Nat

VARIABLE nums  \* the array, empty before the touch

Numbers == (1 - Greatest)..Greatest
-----------------------------------------------------------------------------
Init == nums = <<>>

Touch == /\ nums = <<>>
         /\ \E n \in 1..MaxLength : nums' \in [1..n -> Numbers]

Next == Touch
Spec == Init /\ [][Next]_nums
-----------------------------------------------------------------------------
\* All the sorts return the sorted array (mergeSort of an array that is not empty), and both
\* binary searches in it find a target exactly if it is there.
SortsAgree ==
  LET s == sorted(nums)
      Sorts == {bubbleSort(nums), bubbleOptimizerSort(nums), selectSort(nums), insertSort(nums),
                shellSort(nums), quickSort(nums)} \union (IF nums = <<>> THEN {} ELSE {mergeSort(nums)})
      Finds(target, i) == IF \E k \in Positions(s) : s[k] = target THEN i \in Positions(s) /\ s[i] = target
                                                                   ELSE i = -1
  IN /\ Sorts = {s}
     /\ \A target \in Numbers : Finds(target, binarySearch(s, target)) /\ Finds(target, binarySearch1(s, target))

\* Each of the functions for two numbers finds a pair of positions exactly if there is one (those
\* of TwoSumController2 in a sorted array, in order); those for three numbers find the same
\* triples, and the last of them none twice; those for the greatest subarray agree.
SumsAgree ==
  LET s == sorted(nums)
      Pair(a, target, i, j) == i # j /\ a[i] + a[j] = target
      Answers(a, target, answer) ==
        IF \E i, j \in Positions(a) : Pair(a, target, i, j)
          THEN Len(answer) = 2 /\ Pair(a, target, answer[1], answer[2])
          ELSE answer = <<>>
      InOrder(answer) == answer = <<>> \/ answer[1] < answer[2]
      triples == threeSum2(nums)
  IN /\ \A target \in Numbers :
          /\ \A answer \in {twoSum(nums, target), twoSum1(nums, target), twoSum2(nums, target)} :
               Answers(nums, target, answer)
          /\ \A answer \in {twoSum(s, target), twoSumSearch(s, target), twoSumPointers(s, target)} :
               Answers(s, target, answer) /\ InOrder(answer)
     /\ threeSum1(nums) = threeSum(nums)
     /\ {triples[k] : k \in DOMAIN triples} = threeSum(nums) /\ Len(triples) = Cardinality(threeSum(nums))
     /\ nums # <<>> => /\ maxSubArray1(nums) = maxSubArray(nums)
                       /\ maxSubArray2(nums) = maxSubArray(nums)

\* What the comment of FourSumController says of fourSum: it returns the quadruples of numbers at
\* four positions whose sum is the target, each of them once.
FourSumExact ==
  LET Positions4 == {q \in Positions(nums) \X Positions(nums) \X Positions(nums) \X Positions(nums) :
                       q[1] < q[2] /\ q[2] < q[3] /\ q[3] < q[4]}
      Quadruples(target) == {sorted(<<nums[q[1]], nums[q[2]], nums[q[3]], nums[q[4]]>>) :
                               q \in {q \in Positions4 : nums[q[1]] + nums[q[2]] + nums[q[3]] + nums[q[4]] = target}}
  IN \A target \in Numbers :
       LET found == fourSum(nums, target)
       IN /\ {found[k] : k \in DOMAIN found} = Quadruples(target)
          /\ Len(found) = Cardinality(Quadruples(target))
=============================================================================
