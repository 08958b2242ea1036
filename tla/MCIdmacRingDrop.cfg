SPECIFICATION Spec
CONSTANTS
  NDescs = 3
  PerLine = 2
PROPERTY
  DropIsReal
