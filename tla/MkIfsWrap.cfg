SPECIFICATION MCSpec
CONSTANTS
  boot = boot  decoy = decoy  kernel = kernel
  dir31 = dir31  longer = longer  inside = inside
  home = home  boot2 = boot2
  NoEntry = NoEntry
  Entry <- MCEntry
  Parent <- MCParent
  Resolves <- MCResolves
  NameOf <- MCName
  Sizes = {5000}
  BootSizes = {4097}
  Garbage = {1044480}
  Word = 1048576
  MaxTouch = 0
INVARIANT SizeOfIfsPortion
