CONSTANTS
  Durations = {0, 1, 49, 50, 51, 99, 100, 101, 499, 500, 501, 999, 1000, 1001,
               2999, 3000, 3001, 4999, 5000, 5001, 59999, 60000, 60001, 2147483647}
  MaxCalls = 2
SPECIFICATION Spec
INVARIANTS BucketPerSpec
