CONSTANTS
  Hashes = {"groestl", "skein", "jh", "cubehash", "keccak", "echo", "sha256", "fugue", "blake32", "blake64", "luffa", "shabal", "gost"}
  Message <- MCMessage
  Cuts = {0, 1, 7, 63, 64, 80, 127, 130}
  Lengths = {0, 1, 2, 3, 4, 31, 32, 55, 56, 63, 64, 71, 72, 80, 109, 110, 111, 112, 119, 120, 127, 128, 132}
  Junk = 9999
  Algos = {"groestl", "dmd-gr", "myr-gr", "phi", "skunk", "tribus"}
  NoAlgo = "none"
SPECIFICATION Spec
INVARIANTS DigestIsOfMessage NothingLost FpgaHashesTheHeader FpgaSeesTarget
CHECK_DEADLOCK FALSE
