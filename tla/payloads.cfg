CONSTANTS
  Sticks <- AllSticks
  Counters = {256, 99999999, 100000000}
  SecretLengths = {20, 21, 25, 26}
  TextLengths = {2}
  MaxWrites = 2
SPECIFICATION Spec
INVARIANTS TypeOK ReadsBack CounterReadsBack AnswersUnderstood SecretUsable
