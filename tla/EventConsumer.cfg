SPECIFICATION FairSpec
CONSTANTS
  t1 = t1  t2 = t2
  e1 = e1  garbage = garbage  list = list
  Topics = {t1, t2}
  FirstTopic = t1
  Ids = {e1, garbage, list}
  TopicOf <- MCTopicOf
  Shape <- MCShape
  MaxRetries = 1
  MaxRecords = 2
  MaxExits = 1
INVARIANTS TypeOK AccountedFor AppliedOnce
PROPERTIES LagDrains Delivery
CHECK_DEADLOCK FALSE
