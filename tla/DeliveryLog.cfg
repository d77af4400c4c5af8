CONSTANT MaxEvents = 5
SPECIFICATION Spec
INVARIANTS PairingAgrees NeverSubmittedProven
PROPERTY AmbiguityPersists
