SPECIFICATION Spec
CONSTANTS
  c1 = c1
  c2 = c2
  c3 = c3
  law = law
  iso = iso
  data = data
  ai = ai
  Controls = {c1, c2, c3}
  Phantom = Phantom
  Blank = Blank
  Frameworks = {law, iso}
  FrameworkOf <- MCFrameworkOf
  WeightOf <- MCWeightOf
  DomainOf <- MCDomainOf
  Critical = {c1, c3}
  BindingLaw = {law}
  TransferControls = {c1}
  CrossBorder = TRUE
  Selected <- MCSelected
  Scope <- MCScope
  Settings <- AllSettings
  Configs <- AllConfigs
  Replies <- AllReplies
  CriticReplies = {"downgraded", "unsure"}
  CriticCost = 1
  Hits <- MCHits
  TopK = 2
  MaxProcesses = 2
  TitleOf <- MCTitleOf
  ReportOrder <- MCReportOrder
  GoldenSets <- AllGoldenSets
INVARIANT ClaimHonest
CHECK_DEADLOCK FALSE
