\* Rings of one to three ranks, four batches.
CONSTANTS
  Experts = {1, 2}
  Configs <- MCConfigs
  MaxBatches = 4
SPECIFICATION FairSpec
INVARIANTS
  NoCyclicWait
PROPERTIES
  ImplementsPipe
  OutputKeptUntilSent
