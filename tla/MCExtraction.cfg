SPECIFICATION Spec
CONSTANTS
  Sources <- MCSources
  Rules <- MCRules
INVARIANTS
  FactsMeetTheContract
  UseHasOneRole
  NamesAreFound
