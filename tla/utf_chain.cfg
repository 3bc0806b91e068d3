SPECIFICATION Spec
CONSTANTS
  Chars = {0, 1, 65, 126, 127, 128, 129, 191, 192, 193, 2046, 2047, 2048,
    2049, 4095, 4096, 55294, 55295, 55296, 55297, 56319, 56320, 57343,
    57344, 57345, 63488, 65533, 65534, 65535, 65536, 65537, 66559,
    66560, 131071, 131072, 262143, 262144, 1048575, 1048576, 1114110,
    1114111, 1114112, 2097151}
  Garbled = {0, 127, 128, 191, 192, 223, 224, 239, 240, 247, 248, 255}
INVARIANTS
  TypeOK
  Preserved
  WellFormed
  
\* A conversion that throws ends the chain.
CHECK_DEADLOCK FALSE
