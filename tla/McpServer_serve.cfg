SPECIFICATION Spec
CONSTANTS
  Controls <- AllControls
  Corpora <- BothCorpora
  Queries <- AllQueries
  framework_of <- FrameworkOf
  bm25 <- Terms
  cosine <- Cosine
  alpha = 6
  DENSE_FACTOR = 2
  DENSE_MIN = 2
  Lines <- AllLines
  Backends = {"memory", "chroma"}
  Orders <- TwoOrders
  RETRIEVAL_TOP_K = 2
  MaxLines = 2
  MaxStarts = 1
INVARIANTS TypeOK AnswersPaired SearchesAgree SearchFair EvidenceOwn RiskMonotone
CHECK_DEADLOCK FALSE
