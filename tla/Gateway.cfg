SPECIFICATION Spec
CONSTANTS
  Cids = {"c1", "c2"}
  Dids = {"did:b"}
  Accounts = {"did:b", "bob"}
  Unknown = "DeleteValue"
INVARIANTS TypeOK RunsWhatWasMeant AnswersTellTheTruth PaidBeforeServed GoodCallsServed
PROPERTIES EveryCallAnswered
