SPECIFICATION Spec
CONSTANTS
    None = None
    DataLens <- MCDataLens
    AadLens <- MCAadLens
    IvLens <- MCIvLens
    KeyLens <- MCKeyLens
    TagLens <- MCTagLens
INVARIANTS TypeOK FieldsAgree ResultComplete HonestErrors
