\* Checks OrphanSubnetFree alone: the code is expected to violate it.
CONSTANTS
  i1 = i1
  i2 = i2
  i3 = i3
  s1 = s1
  s2 = s2
  NoSubnet = NoSubnet
  MaxRestarts = 1
  Instances <- MCInstances
  Subnets <- MCSubnets
SPECIFICATION Spec
SYMMETRY MCSymmetry
INVARIANT OrphanSubnetFree
