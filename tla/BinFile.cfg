SPECIFICATION FileSpec
CONSTANTS
  Contents <- MCContents
  Missing = Missing
INVARIANT FileIsOneSaves
PROPERTY SavedIsLoaded
