CONSTANTS
  Encipher <- ToyEncipher
  Decipher <- ToyDecipher
  BitXor <- BytesXor
  Hash <- ToyHash
  Mac <- ToyMac
  Encrypt <- ToyEncrypt
  DigestOBL = 2
  HashSeedlen = 3
  CipherOBL = 5
  KeyLen = 6
  Noise <- TheNoise
  Numbers <- TheNumbers
  KeyLengths = {16, 256, 17}
  WrapLengths = {0, 1, 7, 8, 9, 15, 16, 17, 24, 25}
  Seeds = {4, 6, 9}
  Requests = {1, 5, 7}
  AddedData = {0, 1, 3}
  MaxCalls = 3
  DerivedKeys = {1, 2, 3, 6}
  PersonalLength = 64
  Strengths = {0, 1, 112, 113, 128, 129, 192, 193, 256, 257}
  Personal = {0, 1, 256, 257, 134217000, 134217729}
  Lengths = {0, 1, 2047, 2048, 2049, 4096, 5000}
  ExcludeLists <- TheExcludeLists
  Standing <- TheStanding
  HasNumber <- TheNumbered
  Unlisted = {"BF-CBC", "whirlpool digest"}
  Sizes = {159, 160, 511, 512, 1024, 2040, 2041, 2047, 2048, 3072, 4096, 4097, 6144, 8192, 8193, 16384, 16385}
  CurveNames <- TheCurves
  DigestNames = {"SHA256", "SHA1", "MD5", "whirlpool digest", "none"}
  OkmLengths = {0, 1, 2, 3, 7, 29, 30, 31}
  MaxBlocks = 15
  Primes <- ThePrimes
  Items <- TheItems
  FileLines <- TheLines
  MaxItems = 2
  Failures = {0, 5}
SPECIFICATION Spec
INVARIANTS NothingElseMissed HealthTestsSound WrapRoundTrip MechanismsAgree
  TypesConform LookupSound IndicatorSound KeysRepaired SettingsSound ContextsSound
CHECK_DEADLOCK FALSE
