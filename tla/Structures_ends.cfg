SPECIFICATION Spec
CONSTANTS
    Element <- MCElement
    MaxLen = 4
    DictHash <- MCDictHash
    Rewritten = {"a"}
    MaxEdits = 1
    Kinds = {"quicklist"}
    ZipBody <- MCZipBody
    ZIP_BIG_PREVLEN = 7
    ZipCountMax = 3
    LpElement <- MCLpElement
    LP_HDR_NUMELE_UNKNOWN = 3
    IntBits <- MCIntBits
    IntElement <- MCIntElement
    QlSize <- MCQlSize
    MIN_COMPRESS_BYTES = 48
    QlNodeLimit = 130
    QlOptions <- MCQlOptions
    ZMember = {1, 2, 3}
    ZScore = {1, 2}
    ZSKIPLIST_MAXLEVEL = 3
    ZsetMaxZiplist = 2
    RaxKey <- MCRaxKey
    RaxProbe <- MCRaxProbe
    RaxVal = {0, 1}
    HLL_REGISTERS = 8
    HLL_Q = 2
    HLL_SPARSE_VAL_MAX_VALUE = 2
    HLL_SPARSE_VAL_MAX_LEN = 2
    HLL_SPARSE_ZERO_MAX_LEN = 2
    hll_sparse_max_bytes = 21
    HllHash <- MCHllHash
    HllOthers <- MCHllOthers
    ListElement = {1, 2}
    ListMax = 3
    SdsBits <- MCSdsBits
    SDS_MAX_PREALLOC = 3
    SdsPiece <- MCSdsPiece
    SdsMax = 4
    LzfByte = {0, 1}
    LzfSlot <- MCLzfSlot
    LzfGarbage = {0, 1, 3, 20}
    MAX_LIT = 3
    MAX_OFF = 5
    MAX_REF = 6
    LzfShort = 3
    LzfMax = 13
    HashBits = 3
    DICT_HT_INITIAL_SIZE = 1
INVARIANT EndsAreRaw
