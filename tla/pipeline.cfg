\* Three stages and one value more than the four relays can hold.
CONSTANTS
  N = 5
  K = 3
SPECIFICATION FairSpec
\* Everything ends by design, and stages that ignore done block for good when
\* the consumer leaves; NoLeak and HeadStops say what may not stop early.
CHECK_DEADLOCK FALSE
INVARIANTS Inv
PROPERTIES RefinesStream HeadStops NoLeak
