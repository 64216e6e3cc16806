SPECIFICATION Spec

CONSTANTS
  Nodes <- MCNodes
  MaxCrashes = 1
  MaxRestarts = 1

PROPERTY
  SomeoneLeads
