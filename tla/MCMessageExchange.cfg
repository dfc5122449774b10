CONSTANTS
  Strings <- MCStrings
  SchemaDocs <- MCSchemaDocs
  FlexDocs <- MCFlexDocs
  FlexUses <- MCFlexUses
  NewNumbers <- MCNewNumbers
  Bytes <- MCBytes
  Options <- MCOptions
SPECIFICATION Spec
CHECK_DEADLOCK FALSE
INVARIANTS RoundTrip LimitsAreExact AcceptedIsInside KeysAreFound
PROPERTY DialogueGoesOn
