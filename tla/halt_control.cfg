CONSTANTS
  Mints = {sol}
  Sol = sol
SPECIFICATION FairSpec
PROPERTY HaltHonoured
PROPERTY HaltedGetsFlat
