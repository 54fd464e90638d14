SPECIFICATION Spec
CONSTANTS
    c1 = c1
    nav = nav
    ncx = ncx
    cover_image = cover_image
    x = x
    y = y
    title = title
    Ids <- MCIds
    Hrefs <- MCHrefs
    Mandatory <- MCMandatory
    NavId = nav
    NcxId = ncx
    CoverId = cover_image
    ThemeId = epub_rs_theme_modern
    AssetId = asset
    NavHref = nav_xhtml
    NcxHref = toc_ncx
    ThemeHref = epub_rs_modern_css
    AssetHref = images_asset
    MaxResources = 3
INVARIANTS
    SpineReadsBack
    CoverReadsBack
    NavigationReadsBack
PROPERTIES
    BuilderTakenOnlyByBuild
