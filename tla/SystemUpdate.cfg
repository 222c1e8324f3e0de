\* A click in the dashboard and a shell, two versions behind.
SPECIFICATION Spec
CONSTANTS
  w1 = w1  c1 = c1
  Web <- OneWeb
  Cli <- OneCli
  Configs <- Deployments
  MaxVersion = 2
INVARIANTS
  TypeOK
  CompletedInstalls
  CodeKnowsSchema
  MigratesWhatItCopied
  OfferIsSafe
