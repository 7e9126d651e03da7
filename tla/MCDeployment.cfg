SPECIFICATION FairSpec
CONSTANTS
  root = root
  demo = demo
  mail = mail
  ann = ann
  bob = bob
  NULL = NULL
  Replica = {i1, i2}
  Request = {q1, q2}
  Email = {root, demo, mail}
  Person = {seeder, ann, bob}
  Seeder = seeder
  Demo <- MCDemo
  Input <- MCInput
  MaxFaults = 1
INVARIANTS TypeOK DInv ServedInTime TokensAreBacked
PROPERTIES KeepsRegistry Settles
