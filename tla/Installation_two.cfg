\* Two hosts that share a new database; two commands fail, one host is installed anew.
SPECIFICATION FairSpec
CONSTANTS
  Host = {h1, h2}
  MaxFailures = 2
  MaxUpgrades = 1
INVARIANTS
  TypeOK
  InstalledHostsRun
  CrontabComesLast
PROPERTY RetriesSucceed
