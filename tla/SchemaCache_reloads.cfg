CONSTANTS
  r1 = r1
  r2 = r2
  Requests = {r1, r2}
  Schemas = {0, 1}
  SchemaKey = "schema"
  Keys <- OneKey
  Values = {0, 1}
  Original <- Older
  MaxWrites = 2
  None = None
  Empty = Empty
  Torn = Torn
SPECIFICATION FairSpec
INVARIANTS AwaitsWhatIsOut MoveLosesNothing MoveIsInvisible
 
