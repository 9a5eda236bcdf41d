SPECIFICATION FairSpec
PROPERTY ResetIsServed
