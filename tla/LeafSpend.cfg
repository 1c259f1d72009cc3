SPECIFICATION Spec
CONSTANTS
  Leaves <- MCLeaves
  Keys <- MCKeys
  BlockTimes = {499999999, 1700000000}
  BlockHeights = {1, 850010}
INVARIANTS OpensOnTime LeafIsReadBack ParsersAgree SignatureCounts
\* One PSBT is signed and sent, or not, then the run is over.
CHECK_DEADLOCK FALSE
