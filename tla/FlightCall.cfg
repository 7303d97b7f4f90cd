SPECIFICATION CallSpec
CONSTANTS
  Callers = {net, storage, lua}
  InRam = {storage}
  Nobody = nobody
INVARIANTS
  FlashCodeGrounded
PROPERTIES
  KeepsPromise
  Answered
